---- MODULE Spec2Model ----
(***************************************************************************)
(* Recommendation engine of the menu-engineering backend                   *)
(* (backend/menu/recommendation_engine.py): the co-purchase analyzer, the  *)
(* multi-factor scorer and the engine facade, over the MenuItem and Order  *)
(* tables and the Django cache.                                            *)
(*                                                                         *)
(* Numbers.  Python floats that are the quotient of two small integers are *)
(* kept as reduced fractions <<n, d>> with d > 0: one correctly rounded    *)
(* division is an order-preserving injection on such fractions.            *)
(***************************************************************************)
EXTENDS Integers, Sequences, FiniteSets, TLC

VARIABLES
    items,            \* MenuItem table: item id -> row
    orders,           \* Order table with its OrderItem lines: sequence of [status, items]
    min_support,      \* CoPurchaseAnalyzer.min_support
    min_confidence,   \* CoPurchaseAnalyzer.min_confidence
    cache,            \* django.core.cache: affinity matrix, per-item lists, menu stats
    ret,              \* the call in progress at the caller: operation, arguments, returned value
    tokens,           \* django.core.cache: the otp:, email_verify: and password_reset: keys
    validations,      \* the TokenManager.validate_* calls in progress, one per worker
    granted,          \* history: successful validations per issued credential
    builds            \* the matrix builds in progress in the workers, and the order of the snapshots

vars == <<items, orders, min_support, min_confidence, cache, ret, tokens, validations, granted,
          builds>>

-----------------------------------------------------------------------------
(* Bounds of the model *)

MaxOrders == 2        \* orders in a drawn order history
TableOrders == 5      \* order counts up to which lifts are tabulated
MaxCart == 2          \* items in a cart
MaxExclude == 1       \* ids in exclude_ids
MaxLimit == 3         \* the largest limit of a call
MaxWithdrawn == 1     \* items deactivated or deleted in a run
MaxIssued == 2        \* credentials issued in a run
MaxWorkers == 2       \* workers validating at the same time
MaxBuilders == 2      \* workers building the matrix at the same time
MaxUpdates == 2       \* status updates in a run of concurrent builds

-----------------------------------------------------------------------------
(* Identifiers *)

\* MenuItem.id and MenuSection.id are UUIDs; small integers stand for them and
\* their order stands for the order of the rows' titles and names.
ItemIds == {1, 2, 3}
SectionIds == {1, 2}
NoId == 0             \* an id argument that is not given

\* Order.StatusChoices members the analysis distinguishes, and "delivered",
\* which the filter names although StatusChoices does not declare it.
Statuses == {"pending", "ready", "completed", "delivered"}

Baskets == SUBSET ItemIds

-----------------------------------------------------------------------------
(* Fractions *)

Abs(x) == IF x < 0 THEN -x ELSE x

RECURSIVE GCD(_, _)
GCD(a, b) == IF b = 0 THEN a ELSE GCD(b, a % b)

\* the fraction n/d in lowest terms with a positive denominator
Frac(n, d) ==
    LET s == IF d < 0 THEN -1 ELSE 1
        g == GCD(Abs(n), Abs(d))
    IN  <<(s * n) \div g, (s * d) \div g>>

FLt(p, q) == p[1] * q[2] < q[1] * p[2]
FLe(p, q) == p[1] * q[2] <= q[1] * p[2]
FDiv(p, q) == Frac(p[1] * q[2], p[2] * q[1])
FMul(p, q) == Frac(p[1] * q[1], p[2] * q[2])
FAdd(p, q) == Frac(p[1] * q[2] + q[1] * p[2], p[2] * q[2])
FMin(p, q) == IF FLt(q, p) THEN q ELSE p
FMax(p, q) == IF FLt(p, q) THEN q ELSE p
Zero == <<0, 1>>
One == <<1, 1>>

\* all orderings of a finite set
RECURSIVE Perms(_)
Perms(S) ==
    IF S = {} THEN {<<>>}
    ELSE UNION {{<<x>> \o p : p \in Perms(S \ {x})} : x \in S}

Range(s) == {s[k] : k \in 1..Len(s)}
Take(s, n) == IF n >= Len(s) THEN s ELSE SubSeq(s, 1, n)

\* Python slice s[:n]: a negative n counts from the end
Slice(s, n) ==
    IF n >= 0 THEN Take(s, n)
    ELSE IF Len(s) + n <= 0 THEN <<>> ELSE SubSeq(s, 1, Len(s) + n)

-----------------------------------------------------------------------------
(* Constants of recommendation_engine.py *)

DefaultMinSupport == <<1, 100>>
DefaultMinConfidence == <<1, 10>>

-----------------------------------------------------------------------------
(* IEEE-754 doubles.  A positive double is <<e, hi, lo>> with the 53-bit    *)
(* significand m = hi * 2^27 + lo, 2^52 <= m < 2^53, and value m * 2^e;     *)
(* <<0, 0, 0>> is 0.0.  Division rounds to nearest, ties to even.           *)

Half == 2^27

RECURSIVE Pow2(_)
Pow2(n) == IF n = 0 THEN 1 ELSE 2 * Pow2(n - 1)

RECURSIVE Log2(_)
Log2(n) == IF n < 2 THEN 0 ELSE 1 + Log2(n \div 2)

DZero == <<0, 0, 0>>

\* float(n) of an integer 0 <= n < 2^26
DFromInt(n) ==
    IF n = 0 THEN DZero
    ELSE LET s == 52 - Log2(n) IN <<0 - s, n * Pow2(s - 27), 0>>

\* two-word naturals <<h, l>> = h * 2^27 + l
WGe(x, y) == x[1] > y[1] \/ (x[1] = y[1] /\ x[2] >= y[2])
WSub(x, y) ==
    IF x[2] >= y[2] THEN <<x[1] - y[1], x[2] - y[2]>>
    ELSE <<x[1] - y[1] - 1, x[2] + Half - y[2]>>
WDbl(x) == <<2 * x[1] + ((2 * x[2]) \div Half), (2 * x[2]) % Half>>
WInc(x) == IF x[2] + 1 = Half THEN <<x[1] + 1, 0>> ELSE <<x[1], x[2] + 1>>

\* one step of restoring division on <<remainder, quotient>>
DivStep(s, d) ==
    IF WGe(s[1], d) THEN <<WDbl(WSub(s[1], d)), WInc(WDbl(s[2]))>>
    ELSE <<WDbl(s[1]), WDbl(s[2])>>

\* n steps
RECURSIVE DivBits(_, _, _)
DivBits(s, d, n) ==
    IF n = 0 THEN s
    ELSE CHOOSE r \in {DivBits(t, d, m) : t \in {DivStep(s, d)}, m \in {n - 1}} : TRUE

\* rounding of the 53 quotient bits m with remainder r of the division by my
DRound(e0, m, r, my) ==
    LET guard == WGe(r, my)
        rest == IF guard THEN WSub(r, my) ELSE r
        up == guard /\ (rest # <<0, 0>> \/ m[2] % 2 = 1)
        m1 == IF up THEN WInc(m) ELSE m
    IN  IF m1[1] = Half THEN <<e0 + 1, Half \div 2, 0>>
        ELSE <<e0, m1[1], m1[2]>>

\* x / y for doubles x >= 0, y > 0 given as values
DDivV(x, y) ==
    LET mx == <<x[2], x[3]>>
        my == <<y[2], y[3]>>
        ge == WGe(mx, my)
        r0 == IF ge THEN mx ELSE WDbl(mx)
        e0 == IF ge THEN x[1] - y[1] - 52 ELSE x[1] - y[1] - 53
    IN  CHOOSE z \in {DRound(e0, qr[2], qr[1], d) :
                       qr \in {DivBits(<<r0, <<0, 0>>>>, my, 53)}, d \in {my}} : TRUE

DDiv(x, y) ==
    CHOOSE z \in {IF u = DZero \/ v = DZero THEN DZero ELSE DDivV(u, v) :
                   u \in {x}, v \in {y}} : TRUE

DLt(x, y) ==
    IF x = DZero THEN y # DZero
    ELSE IF y = DZero THEN FALSE
    ELSE x[1] < y[1] \/ (x[1] = y[1] /\ WGe(<<y[2], y[3]>>, <<x[2], x[3]>>) /\ x # y)

-----------------------------------------------------------------------------
(* Order history *)

\* an order with the set of menu items its lines refer to
Order(status, basket) == [status |-> status, items |-> basket]

RECURSIVE Repeat(_, _)
Repeat(x, n) == IF n = 0 THEN <<>> ELSE <<x>> \o Repeat(x, n - 1)

\* the kinds of order, in a fixed order
StatusSeq == <<"pending", "ready", "completed", "delivered">>
BasketSeq == <<{}, {1}, {2}, {3}, {1, 2}, {1, 3}, {2, 3}, {1, 2, 3}>>
NumKinds == Len(StatusSeq) * Len(BasketSeq)
Kind(n) ==
    Order(StatusSeq[((n - 1) \div Len(BasketSeq)) + 1], BasketSeq[((n - 1) % Len(BasketSeq)) + 1])

\* the histories of at most n orders, one per multiset of orders (rows of the
\* table carry no order of their own): non-decreasing sequences of kinds
RECURSIVE KindSeqs(_)
KindSeqs(n) ==
    IF n = 0 THEN {<<>>}
    ELSE LET H == KindSeqs(n - 1)
         IN  H \cup {Append(s, k) : s \in {t \in H : Len(t) = n - 1},
                                   k \in 1..NumKinds} 

Histories(n) ==
    {[j \in 1..Len(s) |-> Kind(s[j])] :
        s \in {t \in KindSeqs(n) : \A j \in 1..(Len(t) - 1) : t[j] <= t[j + 1]}}

-----------------------------------------------------------------------------
(* CoPurchaseAnalyzer.build_affinity_matrix *)

\* status__in of the orders query
RealizedMut == {"completed", "delivered", "ready", "pending"}
RealizedStatuses == {"completed", "delivered", "ready"}

\* the orders queryset: the rows whose status passes the filter
Realized(h) == {k \in 1..Len(h) : h[k].status \in RealizedStatuses}

\* orders.count()
TotalOrdersMut(h) == Len(h)
TotalOrders(h) == Cardinality(Realized(h))

\* item_counts[item_id]: orders of the queryset whose item set holds the item
ItemCount(h, a) == Cardinality({k \in Realized(h) : a \in h[k].items})

\* pair_counts[(item_a, item_b)]: every order holding both items adds one to
\* both directions
PairCountMut(h, a, b) ==
    IF a < b THEN Cardinality({k \in Realized(h) : {a, b} \subseteq h[k].items})
    ELSE 2 * Cardinality({k \in Realized(h) : {a, b} \subseteq h[k].items})
PairCount(h, a, b) == Cardinality({k \in Realized(h) : {a, b} \subseteq h[k].items})

\* support = pair_count / total_orders
Support(c, total) == Frac(c, total)

\* confidence = pair_count / item_counts[item_a] if item_counts[item_a] else 0
ConfidenceMut(c, oa, ob) == IF ob # 0 THEN Frac(c, ob) ELSE Zero
Confidence(c, oa, ob) == IF oa # 0 THEN Frac(c, oa) ELSE Zero

\* p_b = item_counts[item_b] / total_orders if total_orders else 0
PB(ob, total) == IF total # 0 THEN Frac(ob, total) ELSE Zero

\* the double of a quotient of two small naturals
DOfFrac(p) == DDiv(DFromInt(p[1]), DFromInt(p[2]))

\* lift = confidence / p_b if p_b > 0 else 0: the double that dividing the two
\* doubles gives
LiftOfMut(confidence, p_b) ==
    IF FLt(Zero, p_b) THEN DOfFrac(FDiv(confidence, p_b)) ELSE DZero
LiftOf(confidence, p_b) ==
    IF FLt(Zero, p_b) THEN DDiv(DOfFrac(confidence), DOfFrac(p_b)) ELSE DZero

\* LiftOf tabulated for the quotients that short histories give
SmallFracs == {Frac(n, d) : n \in 1..TableOrders, d \in 1..TableOrders}
LiftTable == [q \in SmallFracs \X SmallFracs |-> LiftOf(q[1], q[2])] @@ <<>>
Lift(confidence, p_b) ==
    IF confidence \in SmallFracs /\ p_b \in SmallFracs THEN LiftTable[<<confidence, p_b>>]
    ELSE LiftOf(confidence, p_b)

\* the real number the stored lift rounds: confidence / p_b without rounding
LiftQ(confidence, p_b) == IF FLt(Zero, p_b) THEN FDiv(confidence, p_b) ELSE Zero

\* the counters after the loop over the orders, tabulated:
\* total_orders, item_counts and pair_counts
Counts(h) ==
    [total |-> TotalOrders(h),
     item |-> [a \in ItemIds |-> ItemCount(h, a)] @@ <<>>,
     pair |-> [p \in {q \in ItemIds \X ItemIds : q[1] # q[2]} |-> PairCount(h, p[1], p[2])] @@ <<>>]

\* the dictionary appended to associations[item_a] for the pair (item_a, item_b)
EntryOf(b, c, support, confidence, p_b) ==
    [item_id |-> b,
     support |-> support,
     confidence |-> confidence,
     lift |-> Lift(confidence, p_b),
     lift_q |-> LiftQ(confidence, p_b),
     count |-> c]

Entry(n, a, b) ==
    EntryOf(b, n.pair[<<a, b>>], Support(n.pair[<<a, b>>], n.total),
            Confidence(n.pair[<<a, b>>], n.item[a], n.item[b]), PB(n.item[b], n.total))

\* the threshold tests of the loop over pair_counts
PassesMut(e, ms, mc) == ~FLt(e.support, ms)
Passes(e, ms, mc) == ~FLt(e.support, ms) /\ ~FLt(e.confidence, mc)

\* the entries of associations[item_a] before sorting
AssocEntries(n, a, ms, mc) ==
    {e \in {Entry(n, a, b) : b \in {x \in ItemIds \ {a} : n.pair[<<a, x>>] > 0}} :
        Passes(e, ms, mc)}

\* sort(key=lift, reverse=True): the sort is stable and entries of equal lift keep
\* the order in which the pairs were met, which follows the iteration order of
\* Python sets and of the queryset; every order of equal-lift entries can occur
SortedByLiftMut(s) == \A k \in 1..(Len(s) - 1) : ~DLt(s[k + 1].lift, s[k].lift)
SortedByLift(s) == \A k \in 1..(Len(s) - 1) : ~DLt(s[k].lift, s[k + 1].lift)

AssocLists(E) == {s \in Perms(E) : SortedByLift(s)}

EmptyMatrix == [associations |-> <<>>, total_orders |-> 0, item_frequencies |-> <<>>]

\* the matrix with counters n and the sorted lists f
Matrix(n, f) ==
    [associations |-> [a \in {x \in ItemIds : f[x] # <<>>} |-> f[a]],
     total_orders |-> n.total,
     item_frequencies |-> [a \in {x \in ItemIds : n.item[x] > 0} |-> n.item[a]]]

\* one sorted list for every item out of the possible ones
ListChoices(lists) ==
    {g \in [ItemIds -> UNION {lists[a] : a \in ItemIds}] : \A a \in ItemIds : g[a] \in lists[a]}

\* the matrices that counters n can lead to
MatricesOf(n, ms, mc) ==
    UNION {{Matrix(n, f) : f \in ListChoices(lists)} :
        lists \in {[a \in ItemIds |-> AssocLists(AssocEntries(n, a, ms, mc))] @@ <<>>}}

\* the matrices a scan of history h can produce
Matrices(h, ms, mc) == UNION {MatricesOf(n, ms, mc) : n \in {Counts(h)}}

\* build_affinity_matrix(use_cache) run against cache ch: the possible outcomes,
\* each the returned matrix, the cache it leaves and whether the orders were read
build_affinity_matrixMut(ch, use_cache) ==
    IF TotalOrders(orders) = 0
    THEN {[matrix |-> EmptyMatrix, cache |-> ch, scanned |-> TRUE]}
    ELSE {[matrix |-> m,
           cache |-> IF use_cache THEN [ch EXCEPT !.affinity = <<m>>] ELSE ch,
           scanned |-> TRUE] : m \in Matrices(orders, min_support, min_confidence)}
build_affinity_matrix(ch, use_cache) ==
    IF use_cache /\ ch.affinity # <<>>
    THEN {[matrix |-> ch.affinity[1], cache |-> ch, scanned |-> FALSE]}
    ELSE IF TotalOrders(orders) = 0
    THEN {[matrix |-> EmptyMatrix, cache |-> ch, scanned |-> TRUE]}
    ELSE {[matrix |-> m,
           cache |-> IF use_cache THEN [ch EXCEPT !.affinity = <<m>>] ELSE ch,
           scanned |-> TRUE] : m \in Matrices(orders, min_support, min_confidence)}

-----------------------------------------------------------------------------
(* Catalog *)

\* a MenuItem row; price and cost are decimals, here in whole units
Item(active, category, price, cost, purchases, section) ==
    [is_active |-> active, category |-> category, price |-> price, cost |-> cost,
     total_purchases |-> purchases, section_id |-> section]

\* MenuItem.margin
Margin(row) == row.price - row.cost

\* the MenuItem object for id i
ItemObj(i) ==
    [id |-> i, is_active |-> items[i].is_active, category |-> items[i].category,
     price |-> items[i].price, cost |-> items[i].cost,
     total_purchases |-> items[i].total_purchases, section_id |-> items[i].section_id]

\* the fixture of CoPurchaseAnalyzerTests: Burger, Fries and Drink, in units of 0.50
FixtureCatalog ==
    (1 :> Item(TRUE, "star", 30, 10, 100, 1)) @@
    (2 :> Item(TRUE, "plowhorse", 12, 3, 80, 1)) @@
    (3 :> Item(TRUE, "puzzle", 6, 1, 50, 1))

\* Meta.ordering of MenuItem: by section, then display_order, then title
Before(i, j) ==
    \/ items[i].section_id < items[j].section_id
    \/ (items[i].section_id = items[j].section_id /\ i < j)

\* the rows of a queryset over the ids S, in the order of Meta.ordering
RECURSIVE InOrder(_)
InOrder(S) ==
    IF S = {} THEN <<>>
    ELSE LET first == CHOOSE i \in S : \A j \in S \ {i} : Before(i, j)
         IN  <<first>> \o InOrder(S \ {first})

-----------------------------------------------------------------------------
(* CoPurchaseAnalyzer.get_item_associations *)

\* int(x * 100) for a double x in [0, 1]: the product of the 53-bit
\* significand and 100, in three limbs of 20 bits, is rounded to 53 bits
\* (nearest, halves to even) and the fraction is cut off
Limb == 2^20
TimesHundred(x) ==
    LET c1 == 100 * (x[3] % Limb)
        b1 == 100 * ((x[3] \div Limb) + (x[2] % 2^13) * 2^7) + (c1 \div Limb)
        a1 == 100 * (x[2] \div 2^13) + (b1 \div Limb)
    IN  <<a1, b1 % Limb, c1 % Limb>>
RoundedProduct(p) ==
    LET shift == IF p[1] >= 2^19 THEN 2^7 ELSE 2^6
        rem == p[3] % shift
        up == 2 * rem > shift \/ (2 * rem = shift /\ (p[3] \div shift) % 2 = 1)
        c2 == p[3] - rem + (IF up THEN shift ELSE 0)
        b2 == p[2] + (c2 \div Limb)
    IN  <<p[1] + (b2 \div Limb), b2 % Limb, c2 % Limb>>
IntTimes100(x) ==
    IF x = DZero \/ (0 - x[1]) - 40 > 30 THEN 0
    ELSE RoundedProduct(TimesHundred(x))[1] \div 2^((0 - x[1]) - 40)

\* ItemAssociation.message: pct = int(self.confidence * 100)
PercentOf(confidence) == IntTimes100(DOfFrac(confidence))
PercentTable == [q \in SmallFracs |-> PercentOf(q)] @@ <<>>
Percent(confidence) ==
    IF confidence \in SmallFracs THEN PercentTable[confidence] ELSE PercentOf(confidence)
Message(confidence) ==
    ToString(Percent(confidence)) \o "% of customers order this together"

\* the ItemAssociation built from one dictionary of the matrix
ItemAssociation(d) ==
    [item_id |-> d.item_id, item |-> ItemObj(d.item_id), support |-> d.support,
     confidence |-> d.confidence, lift |-> d.lift, lift_q |-> d.lift_q,
     order_count |-> d.count]

\* MenuItem.objects.get(id=..., is_active=True) finds a row
Gettable(i) == i \in DOMAIN items /\ items[i].is_active

\* the loop over matrix.associations[item_id][:limit]: entries whose item is
\* not found are skipped
RECURSIVE JoinActiveMut(_)
JoinActiveMut(ds) ==
    IF ds = <<>> THEN <<>>
    ELSE IF ds[1].item_id \in DOMAIN items
         THEN <<ItemAssociation(ds[1])>> \o JoinActiveMut(Tail(ds))
         ELSE JoinActiveMut(Tail(ds))
RECURSIVE JoinActive(_)
JoinActive(ds) ==
    IF ds = <<>> THEN <<>>
    ELSE IF Gettable(ds[1].item_id)
         THEN <<ItemAssociation(ds[1])>> \o JoinActive(Tail(ds))
         ELSE JoinActive(Tail(ds))

\* 1 when the orders were read, else 0
Scans(o) == IF o.scanned THEN 1 ELSE 0

\* the second look at the orders when the item is missing from the matrix;
\* scans counts the reads of the orders so far
RebuiltMut(o, item_id, use_cache) ==
    {[matrix |-> o.matrix, cache |-> o.cache, scans |-> Scans(o)]}
Rebuilt(o, item_id, use_cache) ==
    IF item_id \notin DOMAIN o.matrix.associations /\ use_cache
    THEN {[matrix |-> o2.matrix, cache |-> o2.cache, scans |-> Scans(o) + Scans(o2)] :
            o2 \in build_affinity_matrix(o.cache, FALSE)}
    ELSE {[matrix |-> o.matrix, cache |-> o.cache, scans |-> Scans(o)]}

\* the part of get_item_associations after the matrix is chosen
Joined(o, item_id, limit, use_cache) ==
    IF item_id \notin DOMAIN o.matrix.associations
    THEN [result |-> <<>>, cache |-> o.cache, scans |-> o.scans]
    ELSE [result |-> JoinActive(Slice(o.matrix.associations[item_id], limit)),
          cache |-> IF use_cache
                    THEN [o.cache EXCEPT !.fbt[item_id] =
                              <<JoinActive(Slice(o.matrix.associations[item_id], limit))>>]
                    ELSE o.cache,
          scans |-> o.scans]

\* get_item_associations(item_id, limit, use_cache) run against cache ch: the
\* possible outcomes, each the returned list, the cache it leaves and the
\* number of times the orders were read
get_item_associations(ch, item_id, limit, use_cache) ==
    IF use_cache /\ ch.fbt[item_id] # <<>> /\ ch.fbt[item_id][1] # <<>>
    THEN {[result |-> Slice(ch.fbt[item_id][1], limit), cache |-> ch, scans |-> 0]}
    ELSE {Joined(o2, item_id, limit, use_cache) :
            o2 \in UNION {Rebuilt(o1, item_id, use_cache) :
                            o1 \in build_affinity_matrix(ch, use_cache)}}

\* the loop of calculate_lift over matrix.associations[item_a]
LiftInMut(m, item_a, item_b) ==
    IF item_a \notin DOMAIN m.associations THEN DZero
    ELSE m.associations[item_a][1].lift
LiftIn(m, item_a, item_b) ==
    IF item_a \notin DOMAIN m.associations THEN DZero
    ELSE IF \E k \in 1..Len(m.associations[item_a]) :
                m.associations[item_a][k].item_id = item_b
         THEN LET first == CHOOSE k \in 1..Len(m.associations[item_a]) :
                      /\ m.associations[item_a][k].item_id = item_b
                      /\ \A j \in 1..(k - 1) : m.associations[item_a][j].item_id # item_b
              IN  m.associations[item_a][first].lift
         ELSE DZero

\* calculate_lift(item_a, item_b) run against cache ch
calculate_lift(ch, item_a, item_b) ==
    {[result |-> LiftIn(o.matrix, item_a, item_b), cache |-> o.cache] :
        o \in build_affinity_matrix(ch, TRUE)}

\* get_frequently_bought_together(item_id, limit)
get_frequently_bought_together(ch, item_id, limit) ==
    get_item_associations(ch, item_id, limit, TRUE)

-----------------------------------------------------------------------------
(* RecommendationEngine: scoring *)

\* CATEGORY_SCORES.get(item.category, 0.5)
CategoryScoreMut(category) ==
    CASE category \in {"star", "Star"} -> <<1, 1>>
      [] category \in {"puzzle", "Puzzle"} -> <<17, 20>>
      [] category \in {"plowhorse", "Plowhorse"} -> <<3, 5>>
      [] category \in {"dog", "Dog"} -> <<1, 10>>
      [] OTHER -> <<1, 2>>
CategoryScore(category) ==
    CASE category = "star" -> <<1, 1>>
      [] category = "puzzle" -> <<17, 20>>
      [] category = "plowhorse" -> <<3, 5>>
      [] category = "dog" -> <<1, 10>>
      [] OTHER -> <<1, 2>>

Strategies == {"balanced", "upsell", "cross_sell", "seasonal"}

\* _get_strategy_weights, in hundredths
StrategyWeights(strategy) ==
    CASE strategy = "upsell" ->
            [category |-> 30, margin |-> 45, copurchase |-> 15, popularity |-> 5, context |-> 5]
      [] strategy = "cross_sell" ->
            [category |-> 25, margin |-> 20, copurchase |-> 35, popularity |-> 10, context |-> 10]
      [] OTHER ->
            [category |-> 35, margin |-> 30, copurchase |-> 20, popularity |-> 10, context |-> 5]

\* max(...) of a non-empty set of integers
MaxOf(S) == CHOOSE x \in S : \A y \in S : y <= x

RECURSIVE SumOf(_, _)
SumOf(S, f) ==
    IF S = {} THEN 0 ELSE LET x == CHOOSE y \in S : TRUE IN f[x] + SumOf(S \ {x}, f)

\* the dictionary _get_menu_stats computes over the active items
ComputedStats ==
    LET act == {i \in DOMAIN items : items[i].is_active}
    IN  [max_purchases |-> IF act # {} THEN MaxOf({items[i].total_purchases : i \in act}) ELSE 1,
         avg_purchases |-> IF act # {}
                           THEN Frac(SumOf(act, [i \in act |-> items[i].total_purchases]),
                                     Cardinality(act))
                           ELSE Zero,
         max_margin |-> IF act # {} THEN MaxOf({Margin(items[i]) : i \in act}) ELSE 1,
         avg_margin |-> IF act # {}
                        THEN Frac(SumOf(act, [i \in act |-> Margin(items[i])]), Cardinality(act))
                        ELSE Zero]

\* _get_menu_stats run against cache ch: the statistics and the cache it leaves
get_menu_stats(ch) ==
    IF ch.stats # <<>>
    THEN [stats |-> ch.stats[1], cache |-> ch]
    ELSE [stats |-> ComputedStats, cache |-> [ch EXCEPT !.stats = <<ComputedStats>>]]

\* x or 1
OrOne(x) == IF x = 0 THEN 1 ELSE x

\* _normalize_margin: min(margin / max_margin, 1.0)
NormalizeMargin(row, stats) == FMin(Frac(Margin(row), OrOne(stats.max_margin)), One)

\* _normalize_popularity: min(total_purchases / max_purchases, 1.0)
NormalizePopularity(row, stats) ==
    FMin(Frac(row.total_purchases, OrOne(stats.max_purchases)), One)

\* round(x, 3) in thousandths, halves to the even neighbour
Round3(x) ==
    LET f == (1000 * x[1]) \div x[2]
        r == (1000 * x[1]) % x[2]
    IN  IF 2 * r < x[2] THEN f
        ELSE IF 2 * r > x[2] THEN f + 1
        ELSE IF f % 2 = 0 THEN f ELSE f + 1

\* round(x, digits) for scale = 10^digits, in units of 1/scale
RoundTo(x, scale) ==
    LET f == (scale * x[1]) \div x[2]
        r == (scale * x[1]) % x[2]
    IN  IF 2 * r < x[2] THEN f
        ELSE IF 2 * r > x[2] THEN f + 1
        ELSE IF f % 2 = 0 THEN f ELSE f + 1

\* round(score, 3) of the weighted sum: the float sum is off the real sum by
\* rounding errors, so a real sum halfway between two thousandths can go either way
Round3Set(x) ==
    LET f == (1000 * x[1]) \div x[2]
        r == (1000 * x[1]) % x[2]
    IN  IF 2 * r < x[2] THEN {f}
        ELSE IF 2 * r > x[2] THEN {f + 1}
        ELSE {f, f + 1}

\* _generate_reason: at most two phrases, by priority
GenerateReason(category, margin_score, copurchase_score, popularity_score) ==
    LET r1 == IF category = "star" THEN <<"Popular favorite">>
              ELSE IF category = "puzzle" THEN <<"Hidden gem">> ELSE <<>>
        r2 == IF FLt(<<1, 2>>, copurchase_score) THEN <<"Pairs perfectly with your order">>
              ELSE IF FLt(<<1, 5>>, copurchase_score) THEN <<"Often ordered together">>
              ELSE <<>>
        r3 == IF FLt(<<7, 10>>, popularity_score) THEN <<"Customer favorite">> ELSE <<>>
        r4 == IF FLt(<<4, 5>>, margin_score) THEN <<"Great value">> ELSE <<>>
        all == r1 \o r2 \o r3 \o r4
    IN  IF all = <<>> THEN <<"Recommended for you">> ELSE Take(all, 2)

\* the weighted sum of _score_item
WeightedSum(w, category_score, margin_score, copurchase_score, popularity_score, context_score) ==
    FAdd(FAdd(FAdd(FAdd(FMul(category_score, <<w.category, 100>>),
                        FMul(margin_score, <<w.margin, 100>>)),
                   FMul(copurchase_score, <<w.copurchase, 100>>)),
              FMul(popularity_score, <<w.popularity, 100>>)),
         FMul(context_score, <<w.context, 100>>))

\* the RecommendationResult for the sub-scores, with overall score sc
Result(i, sc, category_score, margin_score, copurchase_score, popularity_score, context_score) ==
    [item |-> ItemObj(i),
     score |-> sc,
     reason |-> GenerateReason(items[i].category, margin_score, copurchase_score,
                               popularity_score),
     category_score |-> Round3(category_score),
     margin_score |-> Round3(margin_score),
     copurchase_score |-> Round3(copurchase_score),
     popularity_score |-> Round3(popularity_score),
     context_score |-> Round3(context_score),
     profit_impact |-> Margin(items[i])]

\* _score_item: the results it can return for item i, scores in thousandths
ScoreItemOf(i, w, cs, ms, cp, ps, cx) ==
    {Result(i, sc, cs, ms, cp, ps, cx) : sc \in Round3Set(WeightedSum(w, cs, ms, cp, ps, cx))}

ScoreItem(i, copurchase_scores, stats, strategy) ==
    ScoreItemOf(i, StrategyWeights(strategy),
                CategoryScore(items[i].category),
                NormalizeMargin(items[i], stats),
                IF i \in DOMAIN copurchase_scores THEN copurchase_scores[i] ELSE Zero,
                NormalizePopularity(items[i], stats),
                <<1, 2>>)

-----------------------------------------------------------------------------
(* RecommendationEngine: recommendations *)

\* the loop over one list of associations: scores[id] = max(scores[id], lift / 5)
RECURSIVE FoldAssociations(_, _)
FoldAssociations(scores, associations) ==
    IF associations = <<>> THEN scores
    ELSE LET id == associations[1].item_id
             old == IF id \in DOMAIN scores THEN scores[id] ELSE Zero
         IN  FoldAssociations((id :> FMax(old, FDiv(associations[1].lift_q, <<5, 1>>))) @@ scores,
                              Tail(associations))

\* the loop over the cart, each step a get_item_associations(item_id, limit=10)
RECURSIVE CartScores(_, _, _)
CartScores(ch, scores, current_items) ==
    IF current_items = <<>> THEN {[scores |-> scores, cache |-> ch]}
    ELSE UNION {CartScores(o.cache, FoldAssociations(scores, o.result), Tail(current_items)) :
                    o \in get_item_associations(ch, current_items[1], 10, TRUE)}

\* the largest of a non-empty set of fractions
FMaxOf(S) == CHOOSE x \in S : \A y \in S : FLe(y, x)

\* the rescaling at the end of _get_copurchase_scores
NormalizedMut(scores) == scores
Normalized(scores) ==
    IF DOMAIN scores = {} THEN scores
    ELSE IF FLt(One, FMaxOf({scores[k] : k \in DOMAIN scores}))
         THEN [k \in DOMAIN scores |->
                  FDiv(scores[k], FMaxOf({scores[j] : j \in DOMAIN scores}))]
         ELSE scores

\* _get_copurchase_scores(current_items) run against cache ch
get_copurchase_scores(ch, current_items) ==
    {[scores |-> Normalized(o.scores), cache |-> o.cache] :
        o \in CartScores(ch, <<>>, current_items)}

\* the candidates queryset of get_recommendations
CandidatesMut(current_items, section_id, exclude_ids) ==
    {i \in DOMAIN items :
        /\ items[i].is_active
        /\ i \notin exclude_ids
        /\ (section_id # NoId => items[i].section_id = section_id)}
CandidatesAllMut(current_items, section_id, exclude_ids) ==
    {i \in DOMAIN items :
        /\ i \notin (exclude_ids \cup Range(current_items))
        /\ (section_id # NoId => TRUE)}
Candidates(current_items, section_id, exclude_ids) ==
    {i \in DOMAIN items :
        /\ items[i].is_active
        /\ i \notin (exclude_ids \cup Range(current_items))
        /\ (section_id # NoId => items[i].section_id = section_id)}

\* the scoring loop: the lists of results it can build for the ids in seq
RECURSIVE ScoredLists(_, _, _, _)
ScoredLists(seq, copurchase_scores, stats, strategy) ==
    IF seq = <<>> THEN {<<>>}
    ELSE {<<r>> \o rest :
            r \in ScoreItem(seq[1], copurchase_scores, stats, strategy),
            rest \in ScoredLists(Tail(seq), copurchase_scores, stats, strategy)}

\* r inserted into a list sorted by descending score, after its equals
RECURSIVE InsertByScoreMut(_, _)
InsertByScoreMut(sorted, r) ==
    IF sorted = <<>> THEN <<r>>
    ELSE IF sorted[1].score <= r.score THEN <<sorted[1]>> \o InsertByScoreMut(Tail(sorted), r)
         ELSE <<r>> \o sorted
RECURSIVE InsertByScore(_, _)
InsertByScore(sorted, r) ==
    IF sorted = <<>> THEN <<r>>
    ELSE IF sorted[1].score >= r.score THEN <<sorted[1]>> \o InsertByScore(Tail(sorted), r)
         ELSE <<r>> \o sorted

\* results.sort(key=score, reverse=True): a stable sort
RECURSIVE SortByScore(_)
SortByScore(results) ==
    IF results = <<>> THEN <<>>
    ELSE InsertByScore(SortByScore(Take(results, Len(results) - 1)), results[Len(results)])

\* get_recommendations after the co-purchase scores: statistics, scoring, sort, slice
Recommend(c, current_items, section_id, exclude_ids, limit, strategy) ==
    {[result |-> Slice(SortByScore(results), limit),
      ranked |-> SortByScore(results),
      cache |-> get_menu_stats(c.cache).cache] :
        results \in ScoredLists(InOrder(Candidates(current_items, section_id, exclude_ids)),
                                c.scores, get_menu_stats(c.cache).stats, strategy)}

\* get_recommendations run against cache ch: the possible outcomes
get_recommendations(ch, current_items, section_id, exclude_ids, limit, strategy) ==
    UNION {Recommend(c, current_items, section_id, exclude_ids, limit, strategy) :
            c \in IF current_items # <<>>
                  THEN get_copurchase_scores(ch, current_items)
                  ELSE {[scores |-> <<>>, cache |-> ch]}}

\* get_upsell_suggestions
get_upsell_suggestions(ch, current_items, limit) ==
    get_recommendations(ch, current_items, NoId, {}, limit, "upsell")

\* the section ids of the cart's items
CurrentSections(current_items) ==
    {items[i].section_id : i \in Range(current_items) \cap DOMAIN items}

\* the sub-list of recommendations whose section is (not) among current_sections
InSections(recommendations, current_sections, member) ==
    LET Test(r) == (r.item.section_id \in current_sections) = member
    IN  SelectSeq(recommendations, Test)

\* the partition and truncation of get_cross_sell_suggestions
CrossSellOrderMut(recommendations, current_sections, limit) ==
    Slice(recommendations, limit)
CrossSellOrder(recommendations, current_sections, limit) ==
    Slice(InSections(recommendations, current_sections, FALSE)
              \o InSections(recommendations, current_sections, TRUE), limit)

\* get_cross_sell_suggestions run against cache ch
get_cross_sell_suggestions(ch, current_items, limit) ==
    {[result |-> CrossSellOrder(o.result, CurrentSections(current_items), limit),
      recommendations |-> o.result,
      ranked |-> o.ranked,
      cache |-> o.cache] :
        o \in get_recommendations(ch, current_items, NoId, {}, limit * 2, "cross_sell")}

-----------------------------------------------------------------------------
(* State *)

EmptyCache ==
    [affinity |-> <<>>, fbt |-> [i \in ItemIds |-> <<>>], stats |-> <<>>]

Idle == [op |-> "idle"]

\* the analyzer configurations: the defaults, and thresholds that the counts of
\* a short history can fall below
Thresholds == {<<DefaultMinSupport, DefaultMinConfidence>>, <<<<1, 2>>, <<2, 3>>>>}

\* scenario 2 of the specification: ten orders {1, 2} and five orders {1}
BurgerFries ==
    Repeat(Order("completed", {1, 2}), 10) \o Repeat(Order("completed", {1}), 5)

\* test_pending_orders_excluded, with two orders of each kind
PendingMix ==
    Repeat(Order("completed", {1, 2}), 2) \o Repeat(Order("pending", {1, 3}), 2)

\* five realized orders: one {1, 2}, two {2}, two {3}
OneInFive ==
    <<Order("completed", {1, 2})>> \o Repeat(Order("ready", {2}), 2)
        \o Repeat(Order("delivered", {3}), 2)

SeedHistories == {BurgerFries, PendingMix, OneInFive}

-----------------------------------------------------------------------------
(* users.managers.TokenManager: one-time credentials kept in the cache *)

None == "None"

Phones == {"+201000000001"}
UserIds == {"u1"}

\* the OTPs _generate_complex_otp can draw, and what a client may type
Otps == {"K7QXM3ZP", "H2WR9TBC"}
Typed == Otps \cup {"k7qxm3zp"}

\* str.upper() on the typed strings
Upper(x) == IF x = "k7qxm3zp" THEN "K7QXM3ZP" ELSE x

\* signed tokens are numbered in the order of issue; 0 is a string that no
\* signer produced
TokenIds == 1..MaxIssued
Forged == 0
Workers == 1..MaxWorkers
SignedKinds == {"email_verify", "password_reset"}

\* the credentials: an OTP by its number of issue, a signed token by its key
Credentials == ({"otp"} \X (1..MaxIssued)) \cup (SignedKinds \X TokenIds)

\* no key set, no token signed, no call in progress
NoCredentials ==
    /\ tokens = [otp |-> [ph \in Phones |-> <<>>],
                 email_verify |-> [t \in TokenIds |-> <<>>],
                 password_reset |-> [t \in TokenIds |-> <<>>],
                 signed |-> {}, over900 |-> {}, over86400 |-> {}, issued |-> 0]
    /\ validations = [w \in Workers |-> [pc |-> "idle"]]
    /\ granted = [c \in Credentials |-> 0]

\* the workers that build the matrix
Builders == 1..MaxBuilders

\* no build in progress; version numbers the states of the order history and
\* cached is the version the matrix under the affinity key was read from
NoBuilds == builds = [worker |-> [b \in Builders |-> [pc |-> "idle"]], version |-> 0, cached |-> 0]

menuVars == <<items, orders, min_support, min_confidence, cache, ret, builds>>

\* set_otp_token: a fresh OTP replaces whatever the phone's key held
SetOtpToken(user_id, phone_number) ==
    /\ tokens.issued < MaxIssued
    /\ \E otp \in Otps :
        tokens' = [tokens EXCEPT
                      !.otp[phone_number] =
                          <<[otp |-> otp, user_id |-> user_id, serial |-> tokens.issued + 1]>>,
                      !.issued = @ + 1]
    /\ UNCHANGED <<menuVars, validations, granted>>

\* set_email_verification_token / set_password_reset_token: a new signed token
\* and its key
SetSignedToken(kind, user_id) ==
    /\ tokens.issued < MaxIssued
    /\ tokens' = [tokens EXCEPT ![kind][tokens.issued + 1] = <<user_id>>,
                                !.signed = @ \cup {tokens.issued + 1},
                                !.issued = @ + 1]
    /\ UNCHANGED <<menuVars, validations, granted>>

\* validate_otp up to data = cache.get(key)
ValidateOtpGet(w, phone_number, otp) ==
    /\ validations[w].pc = "idle"
    /\ validations' = [validations EXCEPT ![w] =
                          [pc |-> "got", kind |-> "otp", key |-> phone_number,
                           presented |-> otp, data |-> tokens.otp[phone_number]]]
    /\ UNCHANGED <<menuVars, tokens, granted>>

\* validate_otp from the comparison on: cache.delete(key) and the user id, or None
ValidateOtpFinish(w) ==
    /\ validations[w].pc = "got" /\ validations[w].kind = "otp"
    /\ LET v == validations[w]
       IN  IF v.data # <<>> /\ Upper(v.data[1].otp) = Upper(v.presented)
           THEN /\ tokens' = [tokens EXCEPT !.otp[v.key] = <<>>]
                /\ validations' = [validations EXCEPT ![w] =
                                      [pc |-> "done", kind |-> "otp",
                                       result |-> v.data[1].user_id]]
                /\ granted' = [granted EXCEPT ![<<"otp", v.data[1].serial>>] = @ + 1]
           ELSE /\ validations' = [validations EXCEPT ![w] =
                                      [pc |-> "done", kind |-> "otp", result |-> None]]
                /\ UNCHANGED <<tokens, granted>>
    /\ UNCHANGED menuVars

\* _validate_signed_token: the signature is genuine and younger than max_age
SignatureValid(kind, token) ==
    /\ token \in tokens.signed
    /\ token \notin tokens.over86400
    /\ kind = "password_reset" => token \notin tokens.over900

\* validate_email_verification_token / validate_password_reset_token up to
\* user_id = cache.get(key); a bad or expired signature returns None at once
ValidateSignedGet(w, kind, token) ==
    /\ validations[w].pc = "idle"
    /\ validations' = [validations EXCEPT ![w] =
          IF SignatureValid(kind, token)
          THEN [pc |-> "got", kind |-> kind, key |-> token, presented |-> token,
                data |-> tokens[kind][token]]
          ELSE [pc |-> "done", kind |-> kind, result |-> None]]
    /\ UNCHANGED <<menuVars, tokens, granted>>

\* the rest of a signed-token validation: cache.delete(key) and the user id, or None
ValidateSignedFinish(w) ==
    /\ validations[w].pc = "got" /\ validations[w].kind \in SignedKinds
    /\ LET v == validations[w]
       IN  IF v.data # <<>>
           THEN /\ tokens' = [tokens EXCEPT ![v.kind][v.key] = <<>>]
                /\ validations' = [validations EXCEPT ![w] =
                                      [pc |-> "done", kind |-> v.kind, result |-> v.data[1]]]
                /\ granted' = [granted EXCEPT ![<<v.kind, v.key>>] = @ + 1]
           ELSE /\ validations' = [validations EXCEPT ![w] =
                                      [pc |-> "done", kind |-> v.kind, result |-> None]]
                /\ UNCHANGED <<tokens, granted>>
    /\ UNCHANGED menuVars

\* the serializer takes the result of the call
TakeResult(w) ==
    /\ validations[w].pc = "done"
    /\ validations' = [validations EXCEPT ![w] = [pc |-> "idle"]]
    /\ UNCHANGED <<menuVars, tokens, granted>>

\* 900 seconds pass since token t was signed: its password_reset key times out
Pass900(t) ==
    /\ t \in tokens.signed \ tokens.over900
    /\ tokens' = [tokens EXCEPT !.over900 = @ \cup {t}, !.password_reset[t] = <<>>]
    /\ UNCHANGED <<menuVars, validations, granted>>

\* 86400 seconds pass since token t was signed: its email_verify key times out
Pass86400(t) ==
    /\ t \in tokens.over900 \ tokens.over86400
    /\ tokens' = [tokens EXCEPT !.over86400 = @ \cup {t}, !.email_verify[t] = <<>>]
    /\ UNCHANGED <<menuVars, validations, granted>>

\* the otp: key of the phone times out after 300 seconds
ExpireOtp(phone_number) ==
    /\ tokens.otp[phone_number] # <<>>
    /\ tokens' = [tokens EXCEPT !.otp[phone_number] = <<>>]
    /\ UNCHANGED <<menuVars, validations, granted>>

InitTokens ==
    /\ items = FixtureCatalog
    /\ orders = <<>>
    /\ min_support = DefaultMinSupport
    /\ min_confidence = DefaultMinConfidence
    /\ cache = EmptyCache
    /\ ret = Idle
    /\ NoCredentials
    /\ NoBuilds

NextTokens ==
    \/ \E u \in UserIds, ph \in Phones : SetOtpToken(u, ph)
    \/ \E kind \in SignedKinds, u \in UserIds : SetSignedToken(kind, u)
    \/ \E w \in Workers, ph \in Phones, otp \in Typed : ValidateOtpGet(w, ph, otp)
    \/ \E w \in Workers : ValidateOtpFinish(w)
    \/ \E w \in Workers, kind \in SignedKinds, t \in TokenIds \cup {Forged} :
        ValidateSignedGet(w, kind, t)
    \/ \E w \in Workers : ValidateSignedFinish(w)
    \/ \E w \in Workers : TakeResult(w)
    \/ \E t \in TokenIds : Pass900(t)
    \/ \E t \in TokenIds : Pass86400(t)
    \/ \E ph \in Phones : ExpireOtp(ph)

SpecTokens == InitTokens /\ [][NextTokens]_vars

-----------------------------------------------------------------------------
(* Operations *)

\* the caller takes the returned value
Return ==
    /\ ret.op \notin {"idle", "building"}
    /\ ret' = Idle
    /\ UNCHANGED <<items, orders, min_support, min_confidence, cache, tokens, validations, granted, builds>>

\* CoPurchaseAnalyzer.build_affinity_matrix(use_cache)
BuildAffinityMatrix(use_cache) ==
    /\ ret.op = "idle"
    /\ \E o \in build_affinity_matrix(cache, use_cache) :
        /\ cache' = o.cache
        /\ ret' = [op |-> "build_affinity_matrix", use_cache |-> use_cache,
                   result |-> o.matrix, scanned |-> o.scanned]
    /\ UNCHANGED <<items, orders, min_support, min_confidence, tokens, validations, granted, builds>>

\* tasks.rebuild_affinity_matrix: a forced rebuild stored under the affinity key
RebuildAffinityMatrixTask ==
    /\ ret.op = "idle"
    /\ \E o \in build_affinity_matrix(cache, FALSE) :
        /\ cache' = [o.cache EXCEPT !.affinity = <<o.matrix>>]
        /\ ret' = [op |-> "rebuild_affinity_matrix", result |-> o.matrix,
                   scanned |-> o.scanned]
    /\ UNCHANGED <<items, orders, min_support, min_confidence, tokens, validations, granted, builds>>

\* a cache entry reaches its timeout (or is evicted)
ExpireAffinity ==
    /\ ret.op = "idle"
    /\ cache.affinity # <<>>
    /\ cache' = [cache EXCEPT !.affinity = <<>>]
    /\ UNCHANGED <<items, orders, min_support, min_confidence, ret, tokens, validations, granted, builds>>

-----------------------------------------------------------------------------
(* The analyzer over drawn order histories *)

InitBuild ==
    /\ items = FixtureCatalog
    /\ orders \in Histories(MaxOrders) \cup SeedHistories
    /\ \E t \in Thresholds : min_support = t[1] /\ min_confidence = t[2]
    /\ cache = EmptyCache
    /\ ret = Idle
    /\ NoCredentials
    /\ NoBuilds

NextBuild ==
    \/ \E use_cache \in BOOLEAN : BuildAffinityMatrix(use_cache)
    \/ RebuildAffinityMatrixTask
    \/ ExpireAffinity
    \/ Return

SpecBuild == InitBuild /\ [][NextBuild]_vars

-----------------------------------------------------------------------------
(* The engine over drawn catalogs *)

\* RecommendationEngine.get_recommendations
GetRecommendations(current_items, section_id, exclude_ids, limit, strategy) ==
    /\ ret.op = "idle"
    /\ \E o \in get_recommendations(cache, current_items, section_id, exclude_ids,
                                    limit, strategy) :
        /\ cache' = o.cache
        /\ ret' = [op |-> "get_recommendations", current_items |-> current_items,
                   section_id |-> section_id, exclude_ids |-> exclude_ids,
                   limit |-> limit, strategy |-> strategy,
                   result |-> o.result, ranked |-> o.ranked]
    /\ UNCHANGED <<items, orders, min_support, min_confidence, tokens, validations, granted, builds>>

\* RecommendationEngine.get_upsell_suggestions
GetUpsellSuggestions(current_items, limit) ==
    /\ ret.op = "idle"
    /\ \E o \in get_upsell_suggestions(cache, current_items, limit) :
        /\ cache' = o.cache
        /\ ret' = [op |-> "get_upsell_suggestions", current_items |-> current_items,
                   limit |-> limit, result |-> o.result, ranked |-> o.ranked]
    /\ UNCHANGED <<items, orders, min_support, min_confidence, tokens, validations, granted, builds>>

\* RecommendationEngine.get_cross_sell_suggestions
GetCrossSellSuggestions(current_items, limit) ==
    /\ ret.op = "idle"
    /\ \E o \in get_cross_sell_suggestions(cache, current_items, limit) :
        /\ cache' = o.cache
        /\ ret' = [op |-> "get_cross_sell_suggestions", current_items |-> current_items,
                   limit |-> limit, result |-> o.result,
                   recommendations |-> o.recommendations, ranked |-> o.ranked]
    /\ UNCHANGED <<items, orders, min_support, min_confidence, tokens, validations, granted, builds>>

\* the rows a catalog item is drawn from: a profitable star, a loss-making dog,
\* a puzzle of the second section, an item carrying a declared choice label,
\* and a retired item with the largest margin and purchase count
Profiles ==
    {Item(TRUE, "star", 6, 2, 20, 1),
     Item(TRUE, "dog", 1, 3, 0, 1),
     Item(TRUE, "puzzle", 5, 3, 12, 2),
     Item(TRUE, "Star", 3, 3, 5, 2),
     Item(FALSE, "plowhorse", 10, 2, 40, 2)}

RECURSIVE Ascending(_)
Ascending(S) ==
    IF S = {} THEN <<>>
    ELSE LET least == CHOOSE i \in S : \A j \in S : i <= j
         IN  <<least>> \o Ascending(S \ {least})

\* the carts, exclusion sets, section filters and limits of a call
Carts == {Ascending(S) : S \in {T \in SUBSET ItemIds : Cardinality(T) <= MaxCart}}
Excludes == {S \in SUBSET ItemIds : Cardinality(S) <= MaxExclude}
SectionFilters == {NoId} \cup SectionIds
Limits == (0 - 1)..MaxLimit

\* the arguments of the calls of get_recommendations
RecommendationCalls ==
    (Carts \X {NoId} \X Excludes \X {MaxLimit} \X {"balanced"})
        \cup ({<<>>} \X SectionFilters \X {{}} \X Limits \X {"balanced"})
        \cup (Carts \X {NoId} \X {{}} \X {2} \X Strategies)

EngineHistories == {<<>>, OneInFive}

InitEngine ==
    /\ items \in [ItemIds -> Profiles]
    /\ orders \in EngineHistories
    /\ min_support = DefaultMinSupport
    /\ min_confidence = DefaultMinConfidence
    /\ cache = EmptyCache
    /\ ret = Idle
    /\ NoCredentials
    /\ NoBuilds

NextEngine ==
    \/ \E q \in RecommendationCalls : GetRecommendations(q[1], q[2], q[3], q[4], q[5])
    \/ \E current_items \in Carts, limit \in Limits :
        GetUpsellSuggestions(current_items, limit)
    \/ \E current_items \in Carts, limit \in Limits :
        GetCrossSellSuggestions(current_items, limit)
    \/ Return

SpecEngine == InitEngine /\ [][NextEngine]_vars

-----------------------------------------------------------------------------
(* The analyzer behind its caches, while orders and the catalog change *)

\* CoPurchaseAnalyzer.get_item_associations; hit and held are the per-item
\* entry and the matrix entry of the cache when the call started
GetItemAssociations(item_id, limit, use_cache) ==
    /\ ret.op = "idle"
    /\ \E o \in get_item_associations(cache, item_id, limit, use_cache) :
        /\ cache' = o.cache
        /\ ret' = [op |-> "get_item_associations", item_id |-> item_id, limit |-> limit,
                   use_cache |-> use_cache, result |-> o.result, scans |-> o.scans,
                   hit |-> cache.fbt[item_id], held |-> cache.affinity]
    /\ UNCHANGED <<items, orders, min_support, min_confidence, tokens, validations, granted, builds>>

\* RecommendationEngine.get_frequently_bought_together
GetFrequentlyBoughtTogether(item_id, limit) ==
    /\ ret.op = "idle"
    /\ \E o \in get_frequently_bought_together(cache, item_id, limit) :
        /\ cache' = o.cache
        /\ ret' = [op |-> "get_frequently_bought_together", item_id |-> item_id,
                   limit |-> limit, use_cache |-> TRUE, result |-> o.result,
                   scans |-> o.scans, hit |-> cache.fbt[item_id], held |-> cache.affinity]
    /\ UNCHANGED <<items, orders, min_support, min_confidence, tokens, validations, granted, builds>>

\* CoPurchaseAnalyzer.calculate_lift
CalculateLift(item_a, item_b) ==
    /\ ret.op = "idle"
    /\ \E o \in calculate_lift(cache, item_a, item_b) :
        /\ cache' = o.cache
        /\ ret' = [op |-> "calculate_lift", item_a |-> item_a, item_b |-> item_b,
                   result |-> o.result, held |-> cache.affinity]
    /\ UNCHANGED <<items, orders, min_support, min_confidence, tokens, validations, granted, builds>>

\* the dictionary the view builds for one association
Formatted(assoc) ==
    [item |-> [id |-> assoc.item.id, price |-> assoc.item.price,
               category |-> assoc.item.category],
     confidence |-> RoundTo(assoc.confidence, 1000),
     lift |-> RoundTo(assoc.lift_q, 100),
     support |-> RoundTo(assoc.support, 10000),
     order_count |-> assoc.order_count,
     message |-> Message(assoc.confidence)]

\* RecommendationViewSet.frequently_bought_together: 404 unless the source
\* item is active, else the formatted associations
FrequentlyBoughtTogetherView(item_id, limit) ==
    /\ ret.op = "idle"
    /\ IF ~Gettable(item_id)
       THEN /\ ret' = [op |-> "frequently_bought_together_view", item_id |-> item_id,
                       limit |-> limit, status |-> 404, result |-> <<>>, body |-> <<>>]
            /\ cache' = cache
       ELSE \E o \in get_frequently_bought_together(cache, item_id, limit) :
            /\ cache' = o.cache
            /\ ret' = [op |-> "frequently_bought_together_view", item_id |-> item_id,
                       limit |-> limit, status |-> 200, result |-> o.result,
                       body |-> [k \in 1..Len(o.result) |-> Formatted(o.result[k])]]
    /\ UNCHANGED <<items, orders, min_support, min_confidence, tokens, validations, granted, builds>>

\* the per-item cache entry reaches its timeout
ExpireFbt(i) ==
    /\ ret.op = "idle"
    /\ cache.fbt[i] # <<>>
    /\ cache' = [cache EXCEPT !.fbt[i] = <<>>]
    /\ UNCHANGED <<items, orders, min_support, min_confidence, ret, tokens, validations, granted, builds>>

\* the items that were deactivated or deleted since the start
Withdrawn == {i \in ItemIds : i \notin DOMAIN items \/ ~items[i].is_active}

\* MenuItemViewSet update: a manager deactivates an item
DeactivateItem(i) ==
    /\ ret.op = "idle"
    /\ i \in DOMAIN items /\ items[i].is_active
    /\ Cardinality(Withdrawn) < MaxWithdrawn
    /\ items' = [items EXCEPT ![i].is_active = FALSE]
    /\ UNCHANGED <<orders, min_support, min_confidence, cache, ret, tokens, validations, granted, builds>>

\* MenuItemViewSet destroy: the row goes, and the order lines that referred to
\* it keep a null menu_item (on_delete=SET_NULL)
DeleteItem(i) ==
    /\ ret.op = "idle"
    /\ i \in DOMAIN items /\ items[i].is_active
    /\ Cardinality(Withdrawn) < MaxWithdrawn
    /\ items' = [j \in DOMAIN items \ {i} |-> items[j]]
    /\ orders' = [k \in 1..Len(orders) |-> [orders[k] EXCEPT !.items = @ \ {i}]]
    /\ UNCHANGED <<min_support, min_confidence, cache, ret, tokens, validations, granted, builds>>

\* OrderViewSet.update_status: an order that was taken is completed
CompleteOrder(k) ==
    /\ ret.op = "idle"
    /\ k \in 1..Len(orders) /\ orders[k].status = "pending"
    /\ orders' = [orders EXCEPT ![k].status = "completed"]
    /\ UNCHANGED <<items, min_support, min_confidence, cache, ret, tokens, validations, granted, builds>>

\* item 1 bought with item 2 and with item 3 at different lifts, and an open
\* order that will pair items 2 and 3
TwoLifts ==
    <<Order("completed", {1, 2}), Order("completed", {1, 3}), Order("completed", {3}),
      Order("pending", {2, 3})>>

\* item 3 is in no realized order until the open order is completed
LateItem == <<Order("completed", {1, 2}), Order("pending", {1, 3})>>

CacheHistories == {<<>>, TwoLifts, LateItem, BurgerFries}

\* the limits of the calls: below and above the length of a list
AssociationLimits == {1, MaxLimit}

InitCache ==
    /\ items = FixtureCatalog
    /\ orders \in CacheHistories
    /\ min_support = DefaultMinSupport
    /\ min_confidence = DefaultMinConfidence
    /\ cache = EmptyCache
    /\ ret = Idle
    /\ NoCredentials
    /\ NoBuilds

NextCache ==
    \/ \E use_cache \in BOOLEAN : BuildAffinityMatrix(use_cache)
    \/ RebuildAffinityMatrixTask
    \/ \E i \in ItemIds, limit \in AssociationLimits, use_cache \in BOOLEAN :
        GetItemAssociations(i, limit, use_cache)
    \/ \E i \in ItemIds, limit \in AssociationLimits : GetFrequentlyBoughtTogether(i, limit)
    \/ \E a, b \in ItemIds : CalculateLift(a, b)
    \/ \E i \in ItemIds, limit \in AssociationLimits : FrequentlyBoughtTogetherView(i, limit)
    \/ ExpireAffinity
    \/ \E i \in ItemIds : ExpireFbt(i)
    \/ \E i \in ItemIds : DeactivateItem(i)
    \/ \E i \in ItemIds : DeleteItem(i)
    \/ \E k \in 1..Len(orders) : CompleteOrder(k)
    \/ Return

SpecCache == InitCache /\ [][NextCache]_vars

-----------------------------------------------------------------------------
(* Recommendations for a cart over fixed orders *)

\* a pair bought once among eleven orders: lift 1 -> 2 is 11/2, lift 1 -> 3 is 11/20
RarePair ==
    <<Order("completed", {1, 2}), Order("completed", {1, 3})>>
        \o Repeat(Order("completed", {3}), 9)

CartHistories == {<<>>, OneInFive, RarePair}

\* the fixture catalog, as it is and with one item deactivated
CartCatalogs ==
    {FixtureCatalog} \cup {[FixtureCatalog EXCEPT ![i].is_active = FALSE] : i \in ItemIds}

InitCart ==
    /\ items \in CartCatalogs
    /\ orders \in CartHistories
    /\ min_support = DefaultMinSupport
    /\ min_confidence = DefaultMinConfidence
    /\ cache = EmptyCache
    /\ ret = Idle
    /\ NoCredentials
    /\ NoBuilds

NextCart ==
    \/ \E q \in RecommendationCalls : GetRecommendations(q[1], q[2], q[3], q[4], q[5])
    \/ ExpireAffinity
    \/ \E i \in ItemIds : ExpireFbt(i)
    \/ Return

SpecCart == InitCart /\ [][NextCart]_vars

-----------------------------------------------------------------------------
(* The periodic tasks *)

\* popular_items of cache_top_recommendations, in the order of the queryset
PopularItems ==
    InOrder({i \in DOMAIN items : items[i].is_active /\ items[i].total_purchases > 10})

\* the loop of cache_top_recommendations over item ids seq, run against cache
\* ch: get_frequently_bought_together(item_id, limit=5), then cache.set of what
\* it returned under the per-item key; the caches the loop can leave
RECURSIVE TopCached(_, _)
TopCached(ch, seq) ==
    IF seq = <<>> THEN {ch}
    ELSE UNION {TopCached([o.cache EXCEPT !.fbt[seq[1]] = <<o.result>>], Tail(seq)) :
                    o \in get_frequently_bought_together(ch, seq[1], 5)}

\* tasks.cache_top_recommendations
CacheTopRecommendationsTask ==
    /\ ret.op = "idle"
    /\ \E ch \in TopCached(cache, PopularItems) :
        /\ cache' = ch
        /\ ret' = [op |-> "cache_top_recommendations", items_cached |-> Len(PopularItems),
                   held |-> cache.affinity]
    /\ UNCHANGED <<items, orders, min_support, min_confidence, tokens, validations, granted, builds>>

InitTasks ==
    /\ items = FixtureCatalog
    /\ orders = LateItem
    /\ min_support = DefaultMinSupport
    /\ min_confidence = DefaultMinConfidence
    /\ cache = EmptyCache
    /\ ret = Idle
    /\ NoCredentials
    /\ NoBuilds

\* a customer asks what goes with item i
AsksFor(i) == \E limit \in AssociationLimits : GetFrequentlyBoughtTogether(i, limit)

NextTasks ==
    \/ RebuildAffinityMatrixTask
    \/ CacheTopRecommendationsTask
    \/ \E i \in ItemIds : AsksFor(i)
    \/ \E k \in 1..Len(orders) : CompleteOrder(k)
    \/ ExpireAffinity
    \/ \E i \in ItemIds : ExpireFbt(i)
    \/ Return

\* the scheduler keeps starting both tasks, customers keep asking for every
\* item, and every call returns; nothing makes a cache entry time out while it
\* is stored again within its TTL
SpecTasks ==
    /\ InitTasks /\ [][NextTasks]_vars
    /\ SF_vars(RebuildAffinityMatrixTask)
    /\ SF_vars(CacheTopRecommendationsTask)
    /\ \A i \in ItemIds : SF_vars(AsksFor(i))
    /\ WF_vars(Return)

-----------------------------------------------------------------------------
(* Association queries over fixed orders and a fixed catalog *)

InitLimits ==
    /\ items = FixtureCatalog
    /\ orders \in CacheHistories
    /\ min_support = DefaultMinSupport
    /\ min_confidence = DefaultMinConfidence
    /\ cache = EmptyCache
    /\ ret = Idle
    /\ NoCredentials
    /\ NoBuilds

NextLimits ==
    \/ \E i \in ItemIds, limit \in AssociationLimits, use_cache \in BOOLEAN :
        GetItemAssociations(i, limit, use_cache)
    \/ ExpireAffinity
    \/ \E i \in ItemIds : ExpireFbt(i)
    \/ Return

SpecLimits == InitLimits /\ [][NextLimits]_vars

-----------------------------------------------------------------------------
(* Cross-sell suggestions over a menu of four items *)

\* the ids of a menu with one more item than the orders mention
MenuIds == ItemIds \cup {4}

\* the rows of that menu: a star and a dog of the first section, a puzzle of
\* the second
MenuProfiles ==
    {Item(TRUE, "star", 6, 2, 20, 1),
     Item(TRUE, "dog", 1, 3, 0, 1),
     Item(TRUE, "puzzle", 5, 3, 12, 2)}

InitSell ==
    /\ items \in [MenuIds -> MenuProfiles]
    /\ orders = <<>>
    /\ min_support = DefaultMinSupport
    /\ min_confidence = DefaultMinConfidence
    /\ cache = EmptyCache
    /\ ret = Idle
    /\ NoCredentials
    /\ NoBuilds

NextSell ==
    \/ \E current_items \in Carts, limit \in 1..MaxLimit :
        GetCrossSellSuggestions(current_items, limit)
    \/ Return

SpecSell == InitSell /\ [][NextSell]_vars

-----------------------------------------------------------------------------
(* Recommendations over a menu whose items carry every stored label *)

\* MenuItem.CategoryChoices values, as the import commands and the classifier
\* write them
CategoryChoices == {"Star", "Plowhorse", "Puzzle", "Dog"}

\* the keys of CATEGORY_SCORES that are strings of a stored category
LowercaseLabels == {"star", "puzzle", "plowhorse", "dog"}

\* what the category column of a row can hold
StoredLabels == LowercaseLabels \cup CategoryChoices \cup {None, "", "uncategorized"}

InitLabels ==
    /\ items \in {[i \in ItemIds |-> Item(TRUE, label[i], 6, 2, 20, 1)] :
                    label \in [ItemIds -> StoredLabels]}
    /\ orders = <<>>
    /\ min_support = DefaultMinSupport
    /\ min_confidence = DefaultMinConfidence
    /\ cache = EmptyCache
    /\ ret = Idle
    /\ NoCredentials
    /\ NoBuilds

NextLabels ==
    \/ \E strategy \in Strategies : GetRecommendations(<<>>, NoId, {}, MaxLimit, strategy)
    \/ \E limit \in 1..MaxLimit : GetUpsellSuggestions(<<>>, limit)
    \/ \E limit \in 1..MaxLimit : GetCrossSellSuggestions(<<>>, limit)
    \/ Return

SpecLabels == InitLabels /\ [][NextLabels]_vars

-----------------------------------------------------------------------------
(* The build query by query, beside requests that change orders *)

\* build_affinity_matrix up to total_orders = orders.count(): the cache lookup,
\* then the COUNT query over the realized orders
BeginBuild(use_cache) ==
    /\ ret.op = "idle"
    /\ ret' = IF use_cache /\ cache.affinity # <<>>
              THEN [op |-> "build_affinity_matrix", use_cache |-> use_cache,
                    result |-> cache.affinity[1], scanned |-> FALSE]
              ELSE IF TotalOrders(orders) = 0
              THEN [op |-> "build_affinity_matrix", use_cache |-> use_cache,
                    result |-> EmptyMatrix, scanned |-> TRUE]
              ELSE [op |-> "building", use_cache |-> use_cache,
                    total_orders |-> TotalOrders(orders)]
    /\ UNCHANGED <<items, orders, min_support, min_confidence, cache, tokens, validations, granted, builds>>

\* the counters of a build whose COUNT query returned total and whose loop reads
\* history h
CountsWith(total, h) == [Counts(h) EXCEPT !.total = total]

\* build_affinity_matrix from "for order in orders" on: the queryset is fetched
\* now, the counters are filled from its rows, and the matrix is built with the
\* total_orders counted before, cached under use_cache, and returned
FinishBuild ==
    /\ ret.op = "building"
    /\ \E m \in UNION {MatricesOf(n, min_support, min_confidence) :
                          n \in {CountsWith(ret.total_orders, orders)}} :
        /\ cache' = IF ret.use_cache THEN [cache EXCEPT !.affinity = <<m>>] ELSE cache
        /\ ret' = [op |-> "build_affinity_matrix", use_cache |-> ret.use_cache,
                   result |-> m, scanned |-> TRUE]
    /\ UNCHANGED <<items, orders, min_support, min_confidence, tokens, validations, granted, builds>>

\* OrderViewSet.update_status in another request: any status for any order
UpdateStatus(k, status) ==
    /\ k \in 1..Len(orders) /\ orders[k].status # status
    /\ orders' = [orders EXCEPT ![k].status = status]
    /\ UNCHANGED <<items, min_support, min_confidence, cache, ret, tokens, validations, granted, builds>>

InitScan ==
    /\ items = FixtureCatalog
    /\ orders \in Histories(MaxOrders)
    /\ min_support = DefaultMinSupport
    /\ min_confidence = DefaultMinConfidence
    /\ cache = EmptyCache
    /\ ret = Idle
    /\ NoCredentials
    /\ NoBuilds

NextScan ==
    \/ \E use_cache \in BOOLEAN : BeginBuild(use_cache)
    \/ FinishBuild
    \/ \E k \in 1..Len(orders), status \in Statuses : UpdateStatus(k, status)
    \/ ExpireAffinity
    \/ Return

SpecScan == InitScan /\ [][NextScan]_vars

-----------------------------------------------------------------------------
(* Concurrent builds: request-path cache misses and the periodic task *)

\* who runs the build: a request through build_affinity_matrix(use_cache=True),
\* or tasks.rebuild_affinity_matrix
BuildKinds == {"request", "task"}

\* the rows the orders queryset yields when it is evaluated
RealizedRows(h) == SelectSeq(h, LAMBDA o : o.status \in RealizedStatuses)

\* worker b goes to state w
Goes(b, w) == [builds EXCEPT !.worker[b] = w]

\* the start of a build up to total_orders = orders.count(): a request returns
\* the cached matrix if there is one; zero realized orders end the scan at once
StartBuild(b, kind) ==
    /\ builds.worker[b].pc = "idle"
    /\ builds' =
        IF kind = "request" /\ cache.affinity # <<>>
        THEN Goes(b, [pc |-> "done", kind |-> kind])
        ELSE IF TotalOrders(orders) = 0
        THEN IF kind = "request"
             THEN Goes(b, [pc |-> "done", kind |-> kind])
             ELSE Goes(b, [pc |-> "built", kind |-> kind, matrix |-> EmptyMatrix,
                           total_orders |-> 0, rows |-> <<>>, snap |-> builds.version])
        ELSE Goes(b, [pc |-> "counted", kind |-> kind, total_orders |-> TotalOrders(orders)])
    /\ UNCHANGED <<items, orders, min_support, min_confidence, cache, ret, tokens, validations, granted>>

\* "for order in orders": the queryset is evaluated
FetchOrders(b) ==
    /\ builds.worker[b].pc = "counted"
    /\ builds' = Goes(b, [pc |-> "scanning", kind |-> builds.worker[b].kind,
                          total_orders |-> builds.worker[b].total_orders,
                          rows |-> RealizedRows(orders), done |-> 0,
                          snap |-> builds.version])
    /\ UNCHANGED <<items, orders, min_support, min_confidence, cache, ret, tokens, validations, granted>>

\* one pass of the loop body: the counters take one more order
ScanOrder(b) ==
    /\ builds.worker[b].pc = "scanning"
    /\ builds.worker[b].done < Len(builds.worker[b].rows)
    /\ builds' = Goes(b, [builds.worker[b] EXCEPT !.done = @ + 1])
    /\ UNCHANGED <<items, orders, min_support, min_confidence, cache, ret, tokens, validations, granted>>

\* after the loop: the matrix is assembled; the request path stores it under
\* the affinity key and returns, the task gets it back from the analyzer
BuildMatrix(b) ==
    /\ builds.worker[b].pc = "scanning"
    /\ builds.worker[b].done = Len(builds.worker[b].rows)
    /\ LET w == builds.worker[b]
       IN  \E m \in UNION {MatricesOf(n, min_support, min_confidence) :
                              n \in {CountsWith(w.total_orders, w.rows)}} :
            IF w.kind = "request"
            THEN /\ cache' = [cache EXCEPT !.affinity = <<m>>]
                 /\ builds' = [Goes(b, [pc |-> "done", kind |-> w.kind])
                                  EXCEPT !.cached = w.snap]
            ELSE /\ cache' = cache
                 /\ builds' = Goes(b, [pc |-> "built", kind |-> w.kind, matrix |-> m,
                                       total_orders |-> w.total_orders, rows |-> w.rows,
                                       snap |-> w.snap])
    /\ UNCHANGED <<items, orders, min_support, min_confidence, ret, tokens, validations, granted>>

\* tasks.rebuild_affinity_matrix: cache.set of the matrix it was given
StoreMatrix(b) ==
    /\ builds.worker[b].pc = "built"
    /\ cache' = [cache EXCEPT !.affinity = <<builds.worker[b].matrix>>]
    /\ builds' = [Goes(b, [pc |-> "done", kind |-> builds.worker[b].kind])
                     EXCEPT !.cached = builds.worker[b].snap]
    /\ UNCHANGED <<items, orders, min_support, min_confidence, ret, tokens, validations, granted>>

\* an exception or a deadline ends the build where it stands: the local
\* counters are lost with the frame
AbortBuildMut(b) ==
    /\ builds.worker[b].pc = "scanning"
    /\ \E m \in MatricesOf(CountsWith(builds.worker[b].total_orders,
                                      SubSeq(builds.worker[b].rows, 1, builds.worker[b].done)),
                           min_support, min_confidence) :
        cache' = [cache EXCEPT !.affinity = <<m>>]
    /\ builds' = Goes(b, [pc |-> "aborted", kind |-> builds.worker[b].kind,
                          at |-> builds.worker[b].pc, done |-> builds.worker[b].done])
    /\ UNCHANGED <<items, orders, min_support, min_confidence, ret, tokens, validations, granted>>
AbortBuild(b) ==
    /\ builds.worker[b].pc \in {"counted", "scanning", "built"}
    /\ builds' = Goes(b, [pc |-> "aborted", kind |-> builds.worker[b].kind,
                          at |-> builds.worker[b].pc,
                          done |-> IF builds.worker[b].pc = "scanning"
                                   THEN builds.worker[b].done ELSE 0])
    /\ UNCHANGED <<items, orders, min_support, min_confidence, cache, ret, tokens, validations, granted>>

\* the caller has the matrix or the exception
EndBuild(b) ==
    /\ builds.worker[b].pc \in {"done", "aborted"}
    /\ builds' = Goes(b, [pc |-> "idle"])
    /\ UNCHANGED <<items, orders, min_support, min_confidence, cache, ret, tokens, validations, granted>>

\* OrderViewSet.update_status: the order history moves to its next version
ChangeStatus(k, status) ==
    /\ builds.version < MaxUpdates
    /\ k \in 1..Len(orders) /\ orders[k].status # status
    /\ orders' = [orders EXCEPT ![k].status = status]
    /\ builds' = [builds EXCEPT !.version = @ + 1]
    /\ UNCHANGED <<items, min_support, min_confidence, cache, ret, tokens, validations, granted>>

WorkerHistories == {<<>>, LateItem}

InitWorkers ==
    /\ items = FixtureCatalog
    /\ orders \in WorkerHistories
    /\ min_support = DefaultMinSupport
    /\ min_confidence = DefaultMinConfidence
    /\ cache = EmptyCache
    /\ ret = Idle
    /\ NoCredentials
    /\ NoBuilds

NextWorkers ==
    \/ \E b \in Builders, kind \in BuildKinds : StartBuild(b, kind)
    \/ \E b \in Builders : FetchOrders(b)
    \/ \E b \in Builders : ScanOrder(b)
    \/ \E b \in Builders : BuildMatrix(b)
    \/ \E b \in Builders : StoreMatrix(b)
    \/ \E b \in Builders : AbortBuild(b)
    \/ \E b \in Builders : EndBuild(b)
    \/ \E k \in 1..Len(orders), status \in Statuses : ChangeStatus(k, status)
    \/ ExpireAffinity

SpecWorkers == InitWorkers /\ [][NextWorkers]_vars

-----------------------------------------------------------------------------
(* Properties of the affinity matrix *)

\* a call of build_affinity_matrix, direct or by the periodic task, has returned
ReturnedMatrix == ret.op \in {"build_affinity_matrix", "rebuild_affinity_matrix"}

\* the rows of the Order table in one of the three statuses that count as a purchase
Purchases == {k \in 1..Len(orders) : orders[k].status \in {"completed", "delivered", "ready"}}
Occurrence(x) == Cardinality({k \in Purchases : x \in orders[k].items})
CoOccurrence(x, y) == Cardinality({k \in Purchases : x \in orders[k].items /\ y \in orders[k].items})

\* the entries a -> b of matrix m, as <<a, entry>>
EntriesOf(m) ==
    UNION {{<<a, m.associations[a][k]>> : k \in 1..Len(m.associations[a])} :
        a \in DOMAIN m.associations}

HasEntry(m, a, b) == \E p \in EntriesOf(m) : p[1] = a /\ p[2].item_id = b
EntryAt(m, a, b) == (CHOOSE p \in EntriesOf(m) : p[1] = a /\ p[2].item_id = b)[2]

\* C3: every entry of a matrix returned over a non-empty realized history has
\* support >= min_support and confidence >= min_confidence, and its support is
\* its pair count divided by the matrix's total_orders
C3_EntriesPassThresholds ==
    (ReturnedMatrix /\ Purchases # {}) =>
        \A p \in EntriesOf(ret.result) :
            /\ FLe(min_support, p[2].support)
            /\ FLe(min_confidence, p[2].confidence)
            /\ p[2].support[1] * ret.result.total_orders = p[2].count * p[2].support[2]

\* a returned matrix keeps one direction of a pair and has dropped the other
C3_Witness ==
    /\ ReturnedMatrix /\ ret.scanned
    /\ \E a, b \in ItemIds :
        /\ CoOccurrence(a, b) > 0 /\ a # b
        /\ HasEntry(ret.result, a, b)
        /\ ~HasEntry(ret.result, b, a)

\* 1.0 as a double
DOne == <<-52, 2^25, 0>>

\* (c / oa) / (ob / total) in doubles, tabulated for the counts of short histories
QuotientOfQuotients(c, oa, ob, total) ==
    DDiv(DDiv(DFromInt(c), DFromInt(oa)), DDiv(DFromInt(ob), DFromInt(total)))
SmallCounts ==
    {q \in (1..TableOrders) \X (1..TableOrders) \X (1..TableOrders) \X (1..TableOrders) :
        q[1] <= q[2] /\ q[1] <= q[3] /\ q[2] + q[3] - q[1] <= q[4]}
QuotientTable == [q \in SmallCounts |-> QuotientOfQuotients(q[1], q[2], q[3], q[4])] @@ <<>>
ExpectedLift(c, oa, ob, total) ==
    IF <<c, oa, ob, total>> \in SmallCounts THEN QuotientTable[<<c, oa, ob, total>>]
    ELSE QuotientOfQuotients(c, oa, ob, total)

\* C4: for every entry a -> b with pair count c, confidence = c / occurrence(a)
\* and lift = confidence / (occurrence(b) / total_orders); ten orders {1, 2} and
\* five orders {1} give 1 -> 2 support 10/15, confidence 10/15 and lift 1
C4_ConfidenceAndLift ==
    (ReturnedMatrix /\ ret.scanned) =>
        /\ \A p \in EntriesOf(ret.result) :
            LET a == p[1]
                e == p[2]
            IN  /\ e.count = CoOccurrence(a, e.item_id)
                /\ e.confidence[1] * Occurrence(a) = e.count * e.confidence[2]
                /\ e.lift_q[1] * Occurrence(a) * Occurrence(e.item_id)
                       = e.count * ret.result.total_orders * e.lift_q[2]
                /\ e.lift = ExpectedLift(e.count, Occurrence(a), Occurrence(e.item_id),
                                         ret.result.total_orders)
        /\ orders = BurgerFries =>
            /\ HasEntry(ret.result, 1, 2)
            /\ EntryAt(ret.result, 1, 2).support = <<2, 3>>
            /\ EntryAt(ret.result, 1, 2).confidence = <<2, 3>>
            /\ EntryAt(ret.result, 1, 2).lift = DOne

\* the matrix of scenario 2 has been built
C4_Witness ==
    /\ ReturnedMatrix /\ ret.scanned
    /\ orders = BurgerFries
    /\ HasEntry(ret.result, 1, 2)
    /\ HasEntry(ret.result, 2, 1)
    /\ EntryAt(ret.result, 2, 1).confidence = One

\* C5: when both directed entries of a pair are in a built matrix, their
\* supports are equal and their pair counts are equal
C5_SupportSymmetric ==
    ReturnedMatrix =>
        \A a, b \in ItemIds :
            (HasEntry(ret.result, a, b) /\ HasEntry(ret.result, b, a)) =>
                /\ EntryAt(ret.result, a, b).support = EntryAt(ret.result, b, a).support
                /\ EntryAt(ret.result, a, b).count = EntryAt(ret.result, b, a).count

\* both directions are present with different confidences
C5_Witness ==
    /\ ReturnedMatrix /\ ret.scanned
    /\ \E a, b \in ItemIds :
        /\ HasEntry(ret.result, a, b) /\ HasEntry(ret.result, b, a)
        /\ EntryAt(ret.result, a, b).confidence # EntryAt(ret.result, b, a).confidence

\* C6: lift is not symmetric: a history of five realized orders in which a
\* occurs once, b three times and both together once gives a matrix with
\* both entries whose lifts differ
C6_LiftCanDiffer ==
    ReturnedMatrix =>
        \A a, b \in ItemIds :
            (/\ HasEntry(ret.result, a, b) /\ HasEntry(ret.result, b, a)
             /\ ret.result.total_orders = 5
             /\ EntryAt(ret.result, a, b).count = 1
             /\ a \in DOMAIN ret.result.item_frequencies
             /\ b \in DOMAIN ret.result.item_frequencies
             /\ ret.result.item_frequencies[a] = 1
             /\ ret.result.item_frequencies[b] = 3)
            => EntryAt(ret.result, a, b).lift # EntryAt(ret.result, b, a).lift

\* such a matrix has been built: lift(1 -> 2) and lift(2 -> 1) differ
C6_Witness ==
    /\ ReturnedMatrix /\ ret.scanned
    /\ HasEntry(ret.result, 1, 2) /\ HasEntry(ret.result, 2, 1)
    /\ EntryAt(ret.result, 1, 2).lift # EntryAt(ret.result, 2, 1).lift
    /\ EntryAt(ret.result, 1, 2).support = EntryAt(ret.result, 2, 1).support

\* C10: only orders whose status is completed, delivered or ready contribute:
\* total_orders is their number, and the item and pair counts count them alone
C10_OnlyRealizedOrdersCount ==
    (ReturnedMatrix /\ ret.scanned) =>
        /\ ret.result.total_orders = Cardinality(Purchases)
        /\ \A a \in ItemIds :
            IF a \in DOMAIN ret.result.item_frequencies
            THEN ret.result.item_frequencies[a] = Occurrence(a)
            ELSE Occurrence(a) = 0
        /\ \A p \in EntriesOf(ret.result) : p[2].count = CoOccurrence(p[1], p[2].item_id)

\* a matrix was built while orders in each counted status and a pending order
\* with items were in the table
C10_Witness ==
    /\ ReturnedMatrix /\ ret.scanned
    /\ \E k \in 1..Len(orders) : orders[k].status = "pending" /\ orders[k].items # {}
    /\ Cardinality(Purchases) < Len(orders)
    /\ ret.result.total_orders > 0

\* a direct call of build_affinity_matrix(use_cache=False) has returned
ReturnedUncachedBuild == ret.op = "build_affinity_matrix" /\ ~ret.use_cache

\* C11: with zero realized orders build_affinity_matrix(use_cache=False) returns
\* total_orders = 0 with empty associations and empty item frequencies; with
\* only single-item realized orders the associations map is empty
C11_EmptyHistoryEmptyMatrix ==
    ReturnedUncachedBuild =>
        /\ Purchases = {} =>
            /\ ret.result.total_orders = 0
            /\ DOMAIN ret.result.associations = {}
            /\ DOMAIN ret.result.item_frequencies = {}
        /\ (\A k \in Purchases : Cardinality(orders[k].items) <= 1) =>
            DOMAIN ret.result.associations = {}

\* the call returned while the table held only unrealized orders, one with a pair
C11_Witness ==
    /\ ReturnedUncachedBuild
    /\ Purchases = {}
    /\ \E k \in 1..Len(orders) : Cardinality(orders[k].items) >= 2
    /\ ret.result.total_orders = 0

-----------------------------------------------------------------------------
(* Properties of the association queries *)

\* a query for the associations of one item has returned
ReturnedAssociations ==
    ret.op \in {"get_item_associations", "get_frequently_bought_together"}

\* no realized order holds item a together with another item
NeverCoPurchased(a) == \A b \in ItemIds \ {a} : CoOccurrence(a, b) = 0

\* the cache entries the call started with hold nothing for the queried item
NothingCached ==
    /\ ret.hit = <<>> \/ ret.hit = <<<<>>>>
    /\ ret.held = <<>> \/ ret.item_id \notin DOMAIN ret.held[1].associations

\* C12: a query for an item without association data, in the realized orders
\* and in the cache entries the call reads, returns the empty list, and
\* calculate_lift of a pair without data returns 0.0, whatever else the cache
\* holds and whatever the order history
C12_NoDataIsEmptyResult ==
    /\ (ReturnedAssociations /\ NeverCoPurchased(ret.item_id)
            /\ (ret.use_cache => NothingCached))
        => ret.result = <<>>
    /\ (/\ ret.op = "calculate_lift"
        /\ (ret.item_a = ret.item_b \/ CoOccurrence(ret.item_a, ret.item_b) = 0)
        /\ (ret.held = <<>> \/ ~HasEntry(ret.held[1], ret.item_a, ret.item_b)))
        => ret.result = DZero

\* a cached query returned empty for an item outside the cached matrix, which
\* holds the associations of the other items
C12_Witness ==
    /\ ReturnedAssociations /\ ret.use_cache
    /\ NeverCoPurchased(ret.item_id) /\ NothingCached
    /\ ret.held # <<>> /\ DOMAIN ret.held[1].associations # {}
    /\ cache.fbt # EmptyCache.fbt
    /\ ret.result = <<>>

\* the lifts along list s never increase
LiftsDescend(s) == \A j, k \in 1..Len(s) : j < k => ~DLt(s[j].lift, s[k].lift)

\* C13: in every list of a built matrix and in every list get_item_associations
\* returns, the entries are in non-increasing order of lift
C13_ListsSortedByLift ==
    /\ ReturnedMatrix =>
        \A a \in DOMAIN ret.result.associations : LiftsDescend(ret.result.associations[a])
    /\ ReturnedAssociations => LiftsDescend(ret.result)

\* a query returned two associations of different lifts
C13_Witness ==
    /\ ReturnedAssociations
    /\ Len(ret.result) >= 2
    /\ DLt(ret.result[2].lift, ret.result[1].lift)

-----------------------------------------------------------------------------
(* Properties of the recommendations *)

\* a call of get_recommendations has returned
ReturnedRecommendations == ret.op = "get_recommendations"

\* the ids of the results of a returned list
Ids(results) == {results[k].item.id : k \in 1..Len(results)}

\* C1: get_recommendations never returns an item whose id is in exclude_ids or
\* in current_items, whatever the catalog, section filter, limit and strategy
C1_ExcludedNeverReturned ==
    ReturnedRecommendations =>
        \A k \in 1..Len(ret.result) :
            /\ ret.result[k].item.id \notin ret.exclude_ids
            /\ ret.result[k].item.id \notin Range(ret.current_items)

\* a call with a cart item and an excluded id, both active, returned the third item
C1_Witness ==
    /\ ReturnedRecommendations
    /\ ret.current_items # <<>> /\ ret.exclude_ids # {}
    /\ ret.exclude_ids \cap Range(ret.current_items) = {}
    /\ \A i \in ret.exclude_ids \cup Range(ret.current_items) : items[i].is_active
    /\ ret.result # <<>>

\* the calls that score candidates
ReturnedScores ==
    ret.op \in {"get_recommendations", "get_upsell_suggestions", "get_cross_sell_suggestions"}

UnitInterval == 0..1000

\* C2: every scored candidate, under every strategy, has each of its five
\* sub-scores in [0, 1] and its overall score in [0, 1], loss-making items included
C2_ScoresInUnitInterval ==
    ReturnedScores =>
        \A k \in 1..Len(ret.ranked) :
            /\ ret.ranked[k].category_score \in UnitInterval
            /\ ret.ranked[k].margin_score \in UnitInterval
            /\ ret.ranked[k].copurchase_score \in UnitInterval
            /\ ret.ranked[k].popularity_score \in UnitInterval
            /\ ret.ranked[k].context_score \in UnitInterval
            /\ ret.ranked[k].score \in UnitInterval

\* a cross-sell call has returned
ReturnedCrossSell == ret.op = "get_cross_sell_suggestions"

\* the sections of the rows whose ids are in the cart of the returned call
CartSections == {items[i].section_id : i \in Range(ret.current_items)}
SameSection(r) == r.item.section_id \in CartSections

Least(a, b) == IF a <= b THEN a ELSE b

\* C7: get_cross_sell_suggestions never places an item of a section of the cart
\* before an item of another section; each part is in score order; up to limit,
\* no other-section recommendation is left out while a same-section one is
\* returned
C7_DifferentSectionsFirst ==
    ReturnedCrossSell =>
        /\ \A i, j \in 1..Len(ret.result) :
            i < j =>
                /\ ~(SameSection(ret.result[i]) /\ ~SameSection(ret.result[j]))
                /\ (SameSection(ret.result[i]) = SameSection(ret.result[j])
                        => ret.result[i].score >= ret.result[j].score)
        /\ \A k \in 1..Len(ret.result) :
            \E n \in 1..Len(ret.recommendations) : ret.recommendations[n] = ret.result[k]
        /\ ret.limit >= 0 =>
            /\ Len(ret.result) = Least(ret.limit, Len(ret.recommendations))
            /\ \A n \in 1..Len(ret.recommendations) :
                (/\ ~SameSection(ret.recommendations[n])
                 /\ ret.recommendations[n].item.id \notin Ids(ret.result))
                => \A k \in 1..Len(ret.result) : ~SameSection(ret.result[k])

\* a lower-scoring item of another section precedes a higher-scoring item of a
\* section of the cart
C7_Witness ==
    /\ ReturnedCrossSell
    /\ \E i, j \in 1..Len(ret.result) :
        /\ i < j
        /\ ~SameSection(ret.result[i]) /\ SameSection(ret.result[j])
        /\ ret.result[i].score < ret.result[j].score

\* C8: every item get_recommendations returns is active in the catalog, and
\* with a section filter every returned item belongs to that section
C8_ActiveAndInSection ==
    ReturnedRecommendations =>
        \A k \in 1..Len(ret.result) :
            /\ items[ret.result[k].item.id].is_active
            /\ ret.section_id # NoId =>
                items[ret.result[k].item.id].section_id = ret.section_id

\* a filtered call returned an item while the catalog held an inactive item of
\* the filtered section and an active item of another section
C8_Witness ==
    /\ ReturnedRecommendations
    /\ ret.section_id # NoId
    /\ ret.result # <<>>
    /\ \E i \in ItemIds : ~items[i].is_active /\ items[i].section_id = ret.section_id
    /\ \E i \in ItemIds : items[i].is_active /\ items[i].section_id # ret.section_id

\* the active items outside the cart and the exclusions, in the filtered section
Eligible ==
    {i \in ItemIds :
        /\ items[i].is_active
        /\ i \notin ret.exclude_ids /\ i \notin Range(ret.current_items)
        /\ (ret.section_id = NoId \/ items[i].section_id = ret.section_id)}

\* the score the pass of the returned call gave candidate i
ScoreOf(i) == CHOOSE k \in 1..Len(ret.ranked) : ret.ranked[k].item.id = i

\* C9: for a limit >= 0 get_recommendations returns at most limit results, in
\* non-increasing order of score, and they are the limit highest-scoring
\* candidates: min(limit, candidates) distinct candidates, none scoring below
\* a candidate left out
C9_TopLimitByScore ==
    (ReturnedRecommendations /\ ret.limit >= 0) =>
        /\ Len(ret.result) <= ret.limit
        /\ \A i, j \in 1..Len(ret.result) :
            i < j => ret.result[i].score >= ret.result[j].score
        /\ Ids(ret.ranked) = Eligible
        /\ Len(ret.ranked) = Cardinality(Eligible)
        /\ Ids(ret.result) \subseteq Eligible
        /\ Cardinality(Ids(ret.result)) = Len(ret.result)
        /\ Len(ret.result) = Least(ret.limit, Cardinality(Eligible))
        /\ \A i \in Eligible \ Ids(ret.result) :
            \A k \in 1..Len(ret.result) : ret.ranked[ScoreOf(i)].score <= ret.result[k].score

\* two results of different scores were returned and a candidate of lower
\* score was left out
C9_Witness ==
    /\ ReturnedRecommendations
    /\ ret.limit = 2 /\ Len(ret.result) = 2
    /\ ret.result[1].score > ret.result[2].score
    /\ \E i \in Eligible \ Ids(ret.result) :
        ret.ranked[ScoreOf(i)].score < ret.result[2].score

\* the returned value is a list of results
IsList(r) == DOMAIN r = 1..Len(r)

\* C14: a call of get_recommendations with a negative limit raises an error
\* and returns no list of recommendations
C14_NegativeLimitRaises ==
    (ReturnedRecommendations /\ ret.limit < 0) => ~IsList(ret.result)

\* the view of the frequently-bought-together list has answered with a list
ReturnedView == ret.op = "frequently_bought_together_view" /\ ret.status = 200

\* round(confidence * 100): the nearest integer
NearestPercent(confidence) == RoundTo(confidence, 100)

\* C15: the message of every frequently-bought-together result shows
\* round(confidence * 100) as its percentage; confidence 2/3 shows 67%
C15_MessageRoundsPercentage ==
    ReturnedView =>
        \A k \in 1..Len(ret.body) :
            /\ ret.body[k].message =
                   ToString(NearestPercent(ret.result[k].confidence))
                       \o "% of customers order this together"
            /\ ret.result[k].confidence = <<2, 3>> =>
                   ret.body[k].message = "67% of customers order this together"

-----------------------------------------------------------------------------
(* Properties of the one-time credentials *)

\* C16: every issued credential (OTP, email-verification token, password-reset
\* token) is validated successfully at most once, over every sequence and
\* interleaving of validate calls
C16_OneSuccessPerCredential == \A c \in Credentials : granted[c] <= 1

-----------------------------------------------------------------------------
(* Properties of a build beside concurrent order updates *)

\* the figures of matrix m fit one snapshot of the orders
OneSnapshot(m) ==
    /\ \A a \in DOMAIN m.item_frequencies : m.item_frequencies[a] <= m.total_orders
    /\ \A a \in DOMAIN m.associations : \A k \in 1..Len(m.associations[a]) :
        /\ m.associations[a][k].count <= m.total_orders
        /\ FLe(m.associations[a][k].support, One)
        /\ FLe(m.associations[a][k].confidence, One)

\* C17: every matrix that build_affinity_matrix returns or caches is consistent
\* with one snapshot of the realized orders (every occurrence and co-occurrence
\* count at most total_orders, every support and confidence at most 1), also
\* when orders become realized while the build runs
C17_MatrixFromOneSnapshot ==
    /\ ReturnedMatrix => OneSnapshot(ret.result)
    /\ cache.affinity # <<>> => OneSnapshot(cache.affinity[1])

-----------------------------------------------------------------------------
(* Properties of the cached matrix *)

\* C18: a build that recomputed the matrix from the order history (cache miss
\* or use_cache=False) has stored that matrix under the affinity key when it
\* returns, so that the next build with use_cache=True returns it without a scan
C18_RecomputedMatrixIsCached ==
    (ret.op = "build_affinity_matrix" /\ ret.scanned) => cache.affinity = <<ret.result>>

\* a step that is a build with use_cache=True finding a matrix under the key
CacheHit ==
    /\ ret.op = "idle" /\ cache.affinity # <<>>
    /\ ret'.op = "build_affinity_matrix" /\ ret'.use_cache

\* C19: build_affinity_matrix(use_cache=True) finding a cached matrix returns
\* exactly that matrix, does not read the order history and leaves the cache
\* as it was
C19_CacheHitReturnsCached ==
    [][CacheHit => (ret'.result = cache.affinity[1] /\ ~ret'.scanned /\ cache' = cache)]_vars

\* a build answered from the cache, while the orders have moved on: a scan now
\* would count other totals than the returned matrix holds
C19_Witness ==
    /\ ret.op = "build_affinity_matrix" /\ ret.use_cache /\ ~ret.scanned
    /\ cache.affinity = <<ret.result>>
    /\ ret.result.total_orders # TotalOrders(orders)

-----------------------------------------------------------------------------
(* Properties of the returned items *)

\* C20: every entry that get_item_associations returns refers to an item that
\* exists and is active in the catalog when the call is made (entries of
\* deactivated or deleted items are dropped, and no error is raised)
C20_ReturnedItemsAreActive ==
    ReturnedAssociations =>
        /\ IsList(ret.result)
        /\ \A k \in 1..Len(ret.result) : Gettable(ret.result[k].item_id)

\* the call was answered from the per-item cache entry
ServedFromItemCache == ret.use_cache /\ ret.hit # <<>> /\ ret.hit[1] # <<>>

\* C20 (amended): every entry returned by a call of get_item_associations that
\* is not answered from the per-item cache entry refers to an item that exists
\* and is active in the catalog when the call is made
C20_JoinedItemsAreActive ==
    (ReturnedAssociations /\ ~ServedFromItemCache) =>
        /\ IsList(ret.result)
        /\ \A k \in 1..Len(ret.result) : Gettable(ret.result[k].item_id)

\* a call that took the cached matrix, met in the requested slice an entry of an
\* item since deactivated or deleted, and returned the other entries
C20_Witness ==
    /\ ret.op = "get_item_associations" /\ ret.use_cache /\ ret.hit = <<>>
    /\ ret.held # <<>>
    /\ ret.item_id \in DOMAIN ret.held[1].associations
    /\ \E k \in 1..Len(ret.held[1].associations[ret.item_id]) :
        /\ k <= ret.limit
        /\ ~Gettable(ret.held[1].associations[ret.item_id][k].item_id)
    /\ ret.result # <<>>

-----------------------------------------------------------------------------
(* Properties of the per-item cache *)

\* the call found no usable per-item cache entry (an absent key, or a cached
\* empty list, which the test "if cached" treats alike)
NoItemEntry == ret.hit = <<>> \/ ret.hit = <<<<>>>>

\* the lists a scan of the orders as they are now gives for the query
FreshAnswers(item_id, limit) ==
    LET E == AssocEntries(Counts(orders), item_id, min_support, min_confidence)
    IN  IF TotalOrders(orders) = 0 \/ E = {} THEN {<<>>}
        ELSE {JoinActive(Slice(s, limit)) : s \in AssocLists(E)}

\* C21: a get_item_associations call with use_cache=True that finds no per-item
\* entry and no list for the item in the matrix it obtained reads the order
\* history once more, and only once, before it answers: after a cached matrix
\* that lacks the item there is exactly one scan and the answer is the one the
\* present orders give; after a cache miss there is the scan of the build and
\* the one rescan
C21_RebuildsOnceWhenItemAbsent ==
    (ReturnedAssociations /\ ret.use_cache /\ NoItemEntry) =>
        /\ (ret.held # <<>> /\ ret.item_id \notin DOMAIN ret.held[1].associations) =>
            /\ ret.scans = 1
            /\ ret.result \in FreshAnswers(ret.item_id, ret.limit)
        /\ (ret.held = <<>> /\ FreshAnswers(ret.item_id, ret.limit) = {<<>>}
                /\ AssocEntries(Counts(orders), ret.item_id, min_support, min_confidence) = {}) =>
            /\ ret.scans = 2
            /\ ret.result = <<>>

\* the cached matrix predates the item's first co-purchase, and the call
\* returned the item's associations all the same
C21_Witness ==
    /\ ReturnedAssociations /\ ret.use_cache /\ NoItemEntry
    /\ ret.held # <<>> /\ ret.item_id \notin DOMAIN ret.held[1].associations
    /\ ret.scans = 1
    /\ ret.result # <<>>

-----------------------------------------------------------------------------
(* Properties of the co-purchase score *)

\* what cart item c adds for item i: lift(c -> i) / 5 when the realized orders
\* give an association c -> i that passes the thresholds and i is active
LiftOverFive(c, i) ==
    IF c # i /\ Gettable(i) /\ CoOccurrence(c, i) > 0
          /\ FLe(min_support, Frac(CoOccurrence(c, i), Cardinality(Purchases)))
          /\ FLe(min_confidence, Frac(CoOccurrence(c, i), Occurrence(c)))
    THEN Frac(CoOccurrence(c, i) * Cardinality(Purchases), 5 * Occurrence(c) * Occurrence(i))
    ELSE Zero

\* the maximum over the cart
BestOverCart(cart, i) == FMaxOf({LiftOverFive(c, i) : c \in Range(cart)})

\* the largest value of the map
MapMaximum(cart) == FMaxOf({BestOverCart(cart, i) : i \in ItemIds})

ExpectedCopurchase(cart, i) ==
    IF FLt(One, MapMaximum(cart)) THEN FDiv(BestOverCart(cart, i), MapMaximum(cart))
    ELSE BestOverCart(cart, i)

-----------------------------------------------------------------------------
(* Properties of the normalisation *)

\* the active rows
ActiveItems == {i \in DOMAIN items : items[i].is_active}

\* C23: the denominators of the margin and popularity normalisation are the
\* maxima over the active items, and 1 when there is no active item or no
\* positive value, so no score is divided by zero or by a negative number
C23_DenominatorsArePositive ==
    (ReturnedScores /\ cache.stats # <<>>) =>
        /\ OrOne(cache.stats[1].max_margin) > 0
        /\ OrOne(cache.stats[1].max_purchases) > 0
        /\ (\A i \in ActiveItems : Margin(items[i]) <= 0) =>
                OrOne(cache.stats[1].max_margin) = 1
        /\ (\A i \in ActiveItems : items[i].total_purchases <= 0) =>
                OrOne(cache.stats[1].max_purchases) = 1

-----------------------------------------------------------------------------
(* Properties of concurrent and aborted builds *)

\* the matrices worker w may write: those assembled from every row of its queryset
CompleteMatrices(w) ==
    IF (w.pc = "scanning" /\ w.done = Len(w.rows)) \/ w.pc = "built"
    THEN IF w.total_orders = 0 THEN {EmptyMatrix}
         ELSE MatricesOf(CountsWith(w.total_orders, w.rows), min_support, min_confidence)
    ELSE {}

\* a step in which worker b gives up its build
Aborts(b) == builds.worker[b].pc # "aborted" /\ builds'.worker[b].pc = "aborted"

\* C24: a build that is aborted before it completes leaves the cached matrix
\* as it was, and every value written under the affinity key is a complete
\* matrix, assembled from all rows of the writer's scan
C24_AbortLeavesCacheUntouched ==
    [][/\ \A b \in Builders : Aborts(b) => cache' = cache
       /\ (cache'.affinity # cache.affinity /\ cache'.affinity # <<>>) =>
            \E b \in Builders : cache'.affinity[1] \in CompleteMatrices(builds.worker[b])]_vars

\* a build was aborted in the middle of its scan, after a matrix was cached,
\* and that matrix is still under the key
C24_Witness ==
    /\ cache.affinity # <<>>
    /\ \E b \in Builders :
        /\ builds.worker[b].pc = "aborted"
        /\ builds.worker[b].at = "scanning"
        /\ builds.worker[b].done >= 1

\* C25: while a matrix stays under the affinity key, a write never replaces a
\* matrix read from a later version of the order history by one read from an
\* earlier version, however the concurrent builds interleave
C25_LaterSnapshotIsKept ==
    [][(cache.affinity # <<>> /\ cache'.affinity # <<>>) => builds'.cached >= builds.cached]_vars

-----------------------------------------------------------------------------
(* Properties of the periodic tasks *)

\* every order of the history is realized: the history has changed for the
\* last time
AllRealized == orders # <<>> /\ \A k \in 1..Len(orders) : orders[k].status \in RealizedStatuses

\* a query for item 1 has returned what the present orders give
AnsweredFromPresentOrders ==
    /\ ret.op = "get_frequently_bought_together" /\ ret.item_id = 1
    /\ ret.result \in FreshAnswers(1, ret.limit)

\* C26: after the realized orders have changed, with rebuild_affinity_matrix and
\* cache_top_recommendations run again and again, a get_frequently_bought_together
\* for a popular item eventually returns associations computed from the changed
\* orders
C26_ChangedOrdersReachAnswers == AllRealized ~> AnsweredFromPresentOrders

-----------------------------------------------------------------------------
(* Properties of the limit *)

\* C27: with orders and catalog unchanged, get_item_associations with
\* use_cache=True returns a list that the same call with use_cache=False can
\* return, whatever limits the earlier calls for the item used
C27_ItemCacheIsTransparent ==
    (ret.op = "get_item_associations" /\ ret.use_cache) =>
        ret.result \in FreshAnswers(ret.item_id, ret.limit)

\* the item's associations in the present orders whose item is active
ActiveAssociations(item_id) ==
    {e \in AssocEntries(Counts(orders), item_id, min_support, min_confidence) :
        Gettable(e.item_id)}

\* the smaller of two numbers
Smaller(m, n) == IF m < n THEN m ELSE n

\* C28: get_item_associations with use_cache=False returns min(limit, n)
\* entries, n being the number of the item's associations whose item is
\* active: an entry dropped for an inactive or deleted item takes no slot
C28_DroppedEntriesTakeNoSlot ==
    (ret.op = "get_item_associations" /\ ~ret.use_cache /\ TotalOrders(orders) > 0) =>
        Len(ret.result) = Smaller(ret.limit, Cardinality(ActiveAssociations(ret.item_id)))

-----------------------------------------------------------------------------
(* Properties of the cross-sell suggestions *)

\* the candidates of the returned call (active, not in the cart) whose section
\* is not a section of the cart
OtherSectionCandidates ==
    {i \in Candidates(ret.current_items, NoId, {}) :
        items[i].section_id \notin CartSections}

\* C29: when at least limit candidates belong to sections the cart does not
\* hold, get_cross_sell_suggestions returns no item of a section of the cart
C29_OtherSectionsWhenEnough ==
    (ReturnedCrossSell /\ Cardinality(OtherSectionCandidates) >= ret.limit) =>
        \A k \in 1..Len(ret.result) : ~SameSection(ret.result[k])

-----------------------------------------------------------------------------
(* Properties of the category score *)

\* the category score, in thousandths, the four lowercase labels stand for
LabelScore ==
    ("star" :> 1000) @@ ("puzzle" :> 850) @@ ("plowhorse" :> 600) @@ ("dog" :> 100)

====
